---- MODULE Spec2Model ----
(***************************************************************************)
(* TWAP trading bot: RiskManager (src/unnamed/part_004), TWAPExecutor      *)
(* (execution/TWAPExecutor.js) and TWAPTradingBot (src/unnamed/part_003).  *)
(*                                                                         *)
(* Units.  ETH amounts are integers in 1e-5 ETH (0.01 ETH = 1000),         *)
(* money is in whole USD, prices in USD per ETH, relative quantities in    *)
(* per-mille or basis points as noted, time in units of 1000 ms (the       *)
(* executor's inter-part delay), dates as a day counter.                   *)
(***************************************************************************)
EXTENDS Integers, Sequences, FiniteSets, TLC

(* ------------------------------------------------------------------ *)
(* Program constants (the defaults the constructors fall back to)      *)
(* ------------------------------------------------------------------ *)
maxDailyLoss == 1000
maxPositionSize == 1000000
maxOrderSize == 100000
maxSlippage == 5
maxDrawdown == 10
minOrderSize == 1000
execMaxOrderSize == 100000
partDelay == 1
\* the pause evaluateOrderCreation announces after a rejection: 60000 ms
rejectionPause == 60
\* updateParameters: volatility is re-estimated once the price history is
\* longer than 50 points, and the histories keep their last 1000 points
recalibrationLength == 50
historyLimit == 1000
\* stop(): waitForActiveOrders(30000), polling every 1000 ms
drainTimeout == 30
pollInterval == 1

(* ------------------------------------------------------------------ *)
(* Bounds of the model                                                 *)
(* ------------------------------------------------------------------ *)
MaxDay == 1
MaxPnLSteps == 3
MaxPosSteps == 2
MaxOrders == 2
MaxTime == 2
\* config.maxOrderParts and config.orderDuration of the bot that is run (the
\* shipped configuration has 10 parts over 300 time units)
maxOrderParts == 2
orderDuration == 4
\* market updates given to one pricing model
MaxHistory == 52
\* setInterval timers alive at once, and start() calls awaiting at once
MaxIntervals == 3
MaxStarting == 2
\* the largest twapParts of an order registered with the wallet
MaxTwapParts == 3

VARIABLES
    \* RiskManager
    dailyPnL, currentPosition, positionNaN, peakValue, lastResetDate,
    emergencyStop, tradingPaused,
    \* wall clock
    today, now,
    \* TWAPExecutor
    orders, activeOrders, currentInventory, executionHistory,
    \* TWAPTradingBot
    orderCounter, totalOrders, initialized,
    \* AvellanedaStoikovModel: its parameters, and the quote it returned last
    model, modelQuote,
    \* AvellanedaStoikovModel: its state variables S, q, t and the length of
    \* its price and inventory histories; the inputs and parameters of the
    \* computation that returned modelQuote
    modelState, quoted,
    \* AvellanedaStoikovTWAP (on-chain): its TWAP storage
    twap,
    \* NuvexWallet (on-chain): twapOrders, twapExecutions and twapExecutedParts
    \* of one order hash
    nuvexWallet,
    \* TWAPTradingBot life cycle: isRunning; whether this.quoteInterval holds a
    \* timer; the setInterval timers that are live; the start() calls that are
    \* awaiting; the wait of stop() for the active orders
    isRunning, quoteInterval, liveIntervals, starting, stopWait,
    \* the last operation performed and its outcome
    last

riskVars == <<dailyPnL, currentPosition, positionNaN, peakValue, lastResetDate,
              emergencyStop, tradingPaused>>
execVars == <<orders, activeOrders, currentInventory, executionHistory>>
botVars == <<orderCounter, totalOrders, initialized>>
modelVars == <<model, modelQuote, modelState, quoted>>
contractVars == <<twap, nuvexWallet>>
runVars == <<isRunning, quoteInterval, liveIntervals, starting, stopWait>>
vars == <<riskVars, today, now, execVars, botVars, modelVars, contractVars, runVars,
          last>>

Abs(x) == IF x < 0 THEN -x ELSE x
Min2(a, b) == IF a < b THEN a ELSE b
Max2(a, b) == IF a > b THEN a ELSE b

(* ------------------------------------------------------------------ *)
(* Inputs                                                              *)
(* ------------------------------------------------------------------ *)
\* balances the balance provider can report: [ETH, USDT]
InventorySet ==
    { [ETH |-> 0, USDT |-> 10000],
      [ETH |-> 950000, USDT |-> 0] }

PriceSet == {2000}

\* market snapshots: spread in basis points, age in ms, 24h change in per-mille
MarketDataSet ==
    [ null : {FALSE}, currentPrice : {2000}, bidAskSpread : {10, 200},
      age : {0, 31000}, priceChange24h : {0, -250}, volatility : {0, 250} ]

\* getCurrentPrice() returning null
NullMarketData == [ null |-> TRUE, currentPrice |-> 0, bidAskSpread |-> 0,
                    age |-> 0, priceChange24h |-> 0, volatility |-> 0 ]

\* quotes of the pricing model: prices in USD, inventoryAdjustment in 0.01
QuoteSet ==
    { [ null |-> FALSE, reservationPrice |-> 2000, bidPrice |-> 1995,
        askPrice |-> 2005, optimalSpread |-> 1, inventoryAdjustment |-> 0 ],
      [ null |-> FALSE, reservationPrice |-> 2000, bidPrice |-> 1990,
        askPrice |-> 2000, optimalSpread |-> 10, inventoryAdjustment |-> 10 ],
      [ null |-> FALSE, reservationPrice |-> 2000, bidPrice |-> 1960,
        askPrice |-> 2040, optimalSpread |-> 80, inventoryAdjustment |-> -10 ] }

\* an order spec without quotes
NoQuotes == [ null |-> TRUE, reservationPrice |-> 0, bidPrice |-> 0,
              askPrice |-> 0, optimalSpread |-> 0, inventoryAdjustment |-> 0 ]

Directions == {"buy", "sell"}

\* part indices a caller of the wallet can name
PartIndices == 0..MaxTwapParts

\* the zero values of the wallet's mappings
NoTwapOrder == [ makingAmount |-> 0, takingAmount |-> 0, twapParts |-> 0,
                 twapStartTime |-> 0, twapEndTime |-> 0 ]

NoExecution == [ executionTime |-> 0, actualMakingAmount |-> 0,
                 actualTakingAmount |-> 0 ]

(* ------------------------------------------------------------------ *)
(* RiskManager                                                         *)
(* ------------------------------------------------------------------ *)
isTradingAllowed == ~emergencyStop /\ ~tradingPaused

calculateNewPosition(order, currentInventory_) ==
    IF order.direction = "buy"
    THEN currentInventory_.ETH + order.totalSize
    ELSE currentInventory_.ETH - order.totalSize

\* in 1e-8 USD: totalSize * (currentPrice - currentPrice * 1.002) for a buy,
\* totalSize * (currentPrice * 0.998 - currentPrice) for a sell
estimateOrderPnL(order, marketData) ==
    IF order.direction = "buy"
    THEN -(order.totalSize * marketData.currentPrice * 2)
    ELSE -(order.totalSize * marketData.currentPrice * 2)

\* pnl + estimatedPnL < -maxDailyLoss, pnl in USD, estimatedPnL in 1e-8 USD
\* (|estimatedPnL| < 21 USD for every order of the model)
DailyLossExceeded(pnl, estimatedPnL) ==
    LET slack == pnl + maxDailyLoss
    IN  IF slack < 0 THEN TRUE
        ELSE IF slack > 20 THEN FALSE
        ELSE slack * 100000000 < -estimatedPnL

\* validateMarketConditions without its flash-crash check
validateMarketConditions_noFlashCrash(marketData) ==
    IF marketData.bidAskSpread > 100 THEN "Spread"
    ELSE IF marketData.age > 30000 THEN "Stale"
    ELSE "ok"

\* the first throw of validateMarketConditions, "ok" when it returns
validateMarketConditions(marketData) ==
    IF marketData.bidAskSpread > 100 THEN "Spread"
    ELSE IF marketData.age > 30000 THEN "Stale"
    ELSE IF marketData.priceChange24h < -200 THEN "FlashCrash"
    ELSE "ok"

\* |targetPrice - currentPrice| / currentPrice > maxSlippage (per-mille)
validateSlippage(order, marketData) ==
    IF Abs(order.targetPrice - marketData.currentPrice) * 1000
         > maxSlippage * marketData.currentPrice
    THEN "Slippage" ELSE "ok"

\* validateOrder without its order-size check
validateOrderResult_noSizeCheck(order, currentInventory_, marketData, pnl) ==
    IF ~isTradingAllowed THEN "TradingNotAllowed"
    ELSE IF Abs(calculateNewPosition(order, currentInventory_)) > maxPositionSize
         THEN "Position"
    ELSE IF marketData.null THEN "TypeError"
    ELSE IF DailyLossExceeded(pnl, estimateOrderPnL(order, marketData))
         THEN "DailyLoss"
    ELSE IF validateMarketConditions(marketData) # "ok"
         THEN validateMarketConditions(marketData)
    ELSE validateSlippage(order, marketData)

\* validateOrder checking only tradingPaused, not emergencyStop
validateOrderResult_ignoreStop(order, currentInventory_, marketData, pnl) ==
    IF tradingPaused /\ ~emergencyStop THEN "TradingNotAllowed"
    ELSE IF order.totalSize > maxOrderSize THEN "OrderSize"
    ELSE IF Abs(calculateNewPosition(order, currentInventory_)) > maxPositionSize
         THEN "Position"
    ELSE IF marketData.null THEN "TypeError"
    ELSE IF DailyLossExceeded(pnl, estimateOrderPnL(order, marketData))
         THEN "DailyLoss"
    ELSE IF validateMarketConditions(marketData) # "ok"
         THEN validateMarketConditions(marketData)
    ELSE validateSlippage(order, marketData)

\* validateOrder checking the position before the order size
validateOrderResult_positionFirst(order, currentInventory_, marketData, pnl) ==
    IF ~isTradingAllowed THEN "TradingNotAllowed"
    ELSE IF Abs(calculateNewPosition(order, currentInventory_)) > maxPositionSize
         THEN "Position"
    ELSE IF order.totalSize > maxOrderSize THEN "OrderSize"
    ELSE IF marketData.null THEN "TypeError"
    ELSE IF DailyLossExceeded(pnl, estimateOrderPnL(order, marketData))
         THEN "DailyLoss"
    ELSE IF validateMarketConditions(marketData) # "ok"
         THEN validateMarketConditions(marketData)
    ELSE validateSlippage(order, marketData)

\* the error validateOrder throws, "ok" when it returns true; pnl is dailyPnL
\* after resetDailyPnLIfNeeded
validateOrderResult(order, currentInventory_, marketData, pnl) ==
    IF ~isTradingAllowed THEN "TradingNotAllowed"
    ELSE IF order.totalSize > maxOrderSize THEN "OrderSize"
    ELSE IF Abs(calculateNewPosition(order, currentInventory_)) > maxPositionSize
         THEN "Position"
    ELSE IF marketData.null THEN "TypeError"
    ELSE IF DailyLossExceeded(pnl, estimateOrderPnL(order, marketData))
         THEN "DailyLoss"
    ELSE IF validateMarketConditions(marketData) # "ok"
         THEN validateMarketConditions(marketData)
    ELSE validateSlippage(order, marketData)

\* resetDailyPnLIfNeeded without its date comparison
resetDailyPnLIfNeeded_always ==
    dailyPnL' = 0 /\ lastResetDate' = today

\* resetDailyPnLIfNeeded leaving lastResetDate as it was
resetDailyPnLIfNeeded_keepsDate ==
    IF today # lastResetDate
    THEN dailyPnL' = 0 /\ UNCHANGED lastResetDate
    ELSE UNCHANGED <<dailyPnL, lastResetDate>>

resetDailyPnLIfNeeded ==
    IF today # lastResetDate
    THEN dailyPnL' = 0 /\ lastResetDate' = today
    ELSE UNCHANGED <<dailyPnL, lastResetDate>>

\* RiskManager.validateOrder: the state change and the outcome
validateOrder(order, currentInventory_, marketData) ==
    /\ resetDailyPnLIfNeeded
    /\ UNCHANGED <<currentPosition, positionNaN, peakValue, emergencyStop,
                   tradingPaused>>

calculatePortfolioValue(inventory, currentPrice) ==
    (inventory.ETH * currentPrice) \div 100000 + inventory.USDT

\* drawdown > maxDrawdown, with drawdown = (peak - currentValue) / peak and 0
\* when the peak is 0
DrawdownExceeded(peak, currentValue) ==
    IF peak = 0 THEN FALSE
    ELSE (peak - currentValue) * 100 > maxDrawdown * peak

\* checkRiskLimits comparing the daily loss with <= 0 instead of the limit's
\* negation: the loss check never fires
checkRiskLimits_noLossCheck(portfolioValue, pnl, posNaN, pos, peak) ==
    IF DrawdownExceeded(peak, portfolioValue) THEN "emergencyStop"
    ELSE IF ~posNaN /\ Abs(pos) > maxPositionSize THEN "pause"
    ELSE "none"

\* which circuit breaker checkRiskLimits trips
checkRiskLimits(portfolioValue, pnl, posNaN, pos, peak) ==
    IF pnl < -maxDailyLoss THEN "emergencyStop"
    ELSE IF DrawdownExceeded(peak, portfolioValue) THEN "emergencyStop"
    ELSE IF ~posNaN /\ Abs(pos) > maxPositionSize THEN "pause"
    ELSE "none"

activateEmergencyStop ==
    /\ emergencyStop' = TRUE
    /\ tradingPaused' = TRUE

\* pauseTrading raising the emergency stop as well
pauseTrading_alsoStops ==
    /\ tradingPaused' = TRUE
    /\ emergencyStop' = TRUE

pauseTrading ==
    /\ tradingPaused' = TRUE
    /\ UNCHANGED emergencyStop

\* updateRiskMetrics lifting the pause again when no limit is breached
updateRiskMetrics_autoResume(executionResult) ==
    LET pnl == dailyPnL + (IF executionResult.hasPnl THEN executionResult.pnl ELSE 0)
        posNaN == positionNaN \/ ~executionResult.hasSize
        pos == IF posNaN THEN 0
               ELSE IF executionResult.direction = "buy"
                    THEN currentPosition + executionResult.size
                    ELSE currentPosition - executionResult.size
        portfolioValue == calculatePortfolioValue(executionResult.currentInventory,
                                                  executionResult.currentPrice)
        peak == IF portfolioValue > peakValue THEN portfolioValue ELSE peakValue
        breach == checkRiskLimits(portfolioValue, pnl, posNaN, pos, peak)
    IN  /\ dailyPnL' = pnl
        /\ currentPosition' = pos
        /\ positionNaN' = posNaN
        /\ peakValue' = peak
        /\ IF breach = "emergencyStop" THEN activateEmergencyStop
           ELSE IF breach = "pause" THEN pauseTrading
           ELSE tradingPaused' = FALSE /\ UNCHANGED emergencyStop
        /\ UNCHANGED lastResetDate

\* updateRiskMetrics taking the reported portfolio value as the new peak
\* whether or not it exceeds the old one
updateRiskMetrics_peakFollows(executionResult) ==
    LET pnl == dailyPnL + (IF executionResult.hasPnl THEN executionResult.pnl ELSE 0)
        posNaN == positionNaN \/ ~executionResult.hasSize
        pos == IF posNaN THEN 0
               ELSE IF executionResult.direction = "buy"
                    THEN currentPosition + executionResult.size
                    ELSE currentPosition - executionResult.size
        portfolioValue == calculatePortfolioValue(executionResult.currentInventory,
                                                  executionResult.currentPrice)
        peak == portfolioValue
        breach == checkRiskLimits(portfolioValue, pnl, posNaN, pos, peak)
    IN  /\ dailyPnL' = pnl
        /\ currentPosition' = pos
        /\ positionNaN' = posNaN
        /\ peakValue' = peak
        /\ IF breach = "emergencyStop" THEN activateEmergencyStop
           ELSE IF breach = "pause" THEN pauseTrading
           ELSE UNCHANGED <<emergencyStop, tradingPaused>>
        /\ UNCHANGED lastResetDate

\* executionResult: [hasPnl, pnl, direction, hasSize, size, currentInventory,
\* currentPrice]; a missing pnl counts 0, a missing size makes the position NaN
updateRiskMetrics(executionResult) ==
    LET pnl == dailyPnL + (IF executionResult.hasPnl THEN executionResult.pnl ELSE 0)
        posNaN == positionNaN \/ ~executionResult.hasSize
        pos == IF posNaN THEN 0
               ELSE IF executionResult.direction = "buy"
                    THEN currentPosition + executionResult.size
                    ELSE currentPosition - executionResult.size
        portfolioValue == calculatePortfolioValue(executionResult.currentInventory,
                                                  executionResult.currentPrice)
        peak == IF portfolioValue > peakValue THEN portfolioValue ELSE peakValue
        breach == checkRiskLimits(portfolioValue, pnl, posNaN, pos, peak)
    IN  /\ dailyPnL' = pnl
        /\ currentPosition' = pos
        /\ positionNaN' = posNaN
        /\ peakValue' = peak
        /\ IF breach = "emergencyStop" THEN activateEmergencyStop
           ELSE IF breach = "pause" THEN pauseTrading
           ELSE UNCHANGED <<emergencyStop, tradingPaused>>
        /\ UNCHANGED lastResetDate

\* resumeTrading clearing the emergency stop as well
resumeTrading_clearsStop ==
    /\ tradingPaused' = FALSE
    /\ emergencyStop' = FALSE

resumeTrading ==
    /\ tradingPaused' = FALSE
    /\ UNCHANGED emergencyStop

resetEmergencyStop ==
    /\ emergencyStop' = FALSE
    /\ tradingPaused' = FALSE

\* dailyPnLPercent > 60 and positionPercent > 60 of getRiskStatus
DailyPnLPercentOver60 == dailyPnL * 100 > 60 * maxDailyLoss
PositionPercentOver60 ==
    ~positionNaN /\ Abs(currentPosition) * 100 > 60 * maxPositionSize

\* recommendPositionSize of a RiskManager whose this.maxOrderSize is
\* riskMaxOrderSize; volatility in per-mille, and 1000 is the 0.01 of
\* Math.max(recommendedSize, 0.01)
recommendPositionSizeWithin(riskMaxOrderSize, baseSize, volatility) ==
    LET s1 == IF DailyPnLPercentOver60 THEN (baseSize * 5) \div 10 ELSE baseSize
        s2 == IF PositionPercentOver60 THEN (s1 * 7) \div 10 ELSE s1
        s3 == IF volatility > 50 THEN (s2 * (1000 - volatility)) \div 1000 ELSE s2
    IN  Max2(Min2(s3, riskMaxOrderSize), 1000)

\* volatility in per-mille
recommendPositionSize(baseSize, volatility, inventory) ==
    recommendPositionSizeWithin(maxOrderSize, baseSize, volatility)

(* ------------------------------------------------------------------ *)
(* AvellanedaStoikovModel                                              *)
(* (prices, parameters and times are fixed-point numbers in units of   *)
(* 1/10000: 10000 is 1.0; inventories q are whole numbers; a product   *)
(* of two fixed-point numbers is divided by 10000)                     *)
(* ------------------------------------------------------------------ *)
\* new AvellanedaStoikovModel(params): a parameter that is missing or 0 takes
\* its default (params.gamma || 0.1, ...)
AvellanedaStoikovModel(params) ==
    [ gamma |-> IF params.gamma = 0 THEN 1000 ELSE params.gamma,
      sigma |-> IF params.sigma = 0 THEN 2000 ELSE params.sigma,
      T |-> IF params.T = 0 THEN 10000 ELSE params.T,
      k |-> IF params.k = 0 THEN 15000 ELSE params.k,
      q_target |-> 0 ]

\* Math.log(1 + x) for -0.1 <= x <= 0.1, by its series x - x^2/2 + x^3/3
log1p(x) == x - ((x * x) \div 20000) + ((((x * x) \div 10000) * x) \div 30000)

\* Math.tanh(x) for a whole number x, to four decimals
tanh(x) ==
    LET a == Abs(x)
        v == IF a = 0 THEN 0 ELSE IF a = 1 THEN 7616 ELSE IF a = 2 THEN 9640
             ELSE IF a = 3 THEN 9951 ELSE IF a = 4 THEN 9993 ELSE IF a = 5 THEN 9999
             ELSE 10000
    IN  IF x < 0 THEN -v ELSE v

\* gamma * sigma^2 * (T - t)
gammaSigma2Time(t) ==
    LET sigma2 == (model.sigma * model.sigma) \div 10000
    IN  (((model.gamma * sigma2) \div 10000) * (model.T - t)) \div 10000

calculateReservationPrice(S, q, t) ==
    LET inventoryPenalty == (gammaSigma2Time(t) * q) \div 2
    IN  S - inventoryPenalty

\* the full spread: twice the half-spread
calculateOptimalSpread(t) ==
    LET riskComponent == gammaSigma2Time(t) \div 2
        liquidityComponent ==
            (20000 * log1p((model.gamma * 10000) \div model.k)) \div model.gamma
        halfSpread == riskComponent + liquidityComponent
    IN  halfSpread * 2

calculateInventoryAdjustment(q) ==
    LET inventoryImbalance == q - model.q_target
        maxAdjustment == model.sigma \div 10
        th == tanh(inventoryImbalance * 2)
    IN  IF th < 0 THEN -(((-th) * maxAdjustment) \div 10000)
        ELSE (th * maxAdjustment) \div 10000

\* calculateOptimalQuotes pricing the inventory this.q the model holds
\* instead of its argument q
calculateOptimalQuotes_ownInventory(S, q, t) ==
    LET r == calculateReservationPrice(S, modelState.q, t)
        optimalSpread == calculateOptimalSpread(t)
        halfSpread == optimalSpread \div 2
        inventoryAdjustment == calculateInventoryAdjustment(modelState.q)
        bidPrice == r - halfSpread - inventoryAdjustment
        askPrice == r + halfSpread + inventoryAdjustment
    IN  [ null |-> FALSE,
          bidPrice |-> Max2(bidPrice, (S \div 100) * 95),
          askPrice |-> Min2(askPrice, (S \div 100) * 105),
          reservationPrice |-> r,
          spread |-> optimalSpread,
          inventoryAdjustment |-> inventoryAdjustment ]

\* calculateOptimalQuotes returning the prices as computed, without the
\* safety bounds
calculateOptimalQuotes_noClamp(S, q, t) ==
    LET r == calculateReservationPrice(S, q, t)
        optimalSpread == calculateOptimalSpread(t)
        halfSpread == optimalSpread \div 2
        inventoryAdjustment == calculateInventoryAdjustment(q)
    IN  [ null |-> FALSE,
          bidPrice |-> r - halfSpread - inventoryAdjustment,
          askPrice |-> r + halfSpread + inventoryAdjustment,
          reservationPrice |-> r,
          spread |-> optimalSpread,
          inventoryAdjustment |-> inventoryAdjustment ]

\* calculateOptimalQuotes subtracting the inventory adjustment from the ask
\* as it does from the bid
calculateOptimalQuotes_skewedAsk(S, q, t) ==
    LET r == calculateReservationPrice(S, q, t)
        optimalSpread == calculateOptimalSpread(t)
        halfSpread == optimalSpread \div 2
        inventoryAdjustment == calculateInventoryAdjustment(q)
        bidPrice == r - halfSpread - inventoryAdjustment
        askPrice == r + halfSpread - inventoryAdjustment
    IN  [ null |-> FALSE,
          bidPrice |-> Max2(bidPrice, (S \div 100) * 95),
          askPrice |-> Min2(askPrice, (S \div 100) * 105),
          reservationPrice |-> r,
          spread |-> optimalSpread,
          inventoryAdjustment |-> inventoryAdjustment ]

\* the quote returned (without the arrival intensities); S * 0.95 and
\* S * 1.05 are taken of mid prices that are multiples of 0.01
calculateOptimalQuotes(S, q, t) ==
    LET r == calculateReservationPrice(S, q, t)
        optimalSpread == calculateOptimalSpread(t)
        halfSpread == optimalSpread \div 2
        inventoryAdjustment == calculateInventoryAdjustment(q)
        bidPrice == r - halfSpread - inventoryAdjustment
        askPrice == r + halfSpread + inventoryAdjustment
    IN  [ null |-> FALSE,
          bidPrice |-> Max2(bidPrice, (S \div 100) * 95),
          askPrice |-> Min2(askPrice, (S \div 100) * 105),
          reservationPrice |-> r,
          spread |-> optimalSpread,
          inventoryAdjustment |-> inventoryAdjustment ]

\* estimateVolatility: sigma * 0.9 + volatility * 0.1, where volatility is
\* the annualised EWMA volatility of the returns in priceHistory (the model
\* keeps the length of the history, and takes this volatility as given)
estimateVolatility(volatility) == (model.sigma * 9 + volatility) \div 10

\* updateParameters(marketData): stores S, t and q, extends the histories,
\* re-estimates sigma when the history is long enough, and computes the
\* quote with the parameters it has then
updateParameters(marketData, volatility) ==
    LET length == Min2(modelState.historyLength + 1, historyLimit)
    IN  /\ modelState' = [ S |-> marketData.midPrice, q |-> marketData.inventory,
                           t |-> marketData.timestamp, historyLength |-> length ]
        /\ model' = IF length > recalibrationLength
                    THEN [model EXCEPT !.sigma = estimateVolatility(volatility)]
                    ELSE model
        /\ modelQuote' = calculateOptimalQuotes(marketData.midPrice,
                              marketData.inventory, marketData.timestamp)'

(* ------------------------------------------------------------------ *)
(* TWAPExecutor                                                        *)
(* ------------------------------------------------------------------ *)
\* baseSize * (1 + inventoryAdjustment * 0.1), clamped to
\* [minOrderSize, maxOrderSize]
partSizeOf(totalSize, maxParts, quotes) ==
    LET factor == IF ~quotes.null /\ quotes.inventoryAdjustment # 0
                  THEN 1000 + quotes.inventoryAdjustment ELSE 1000
        num == totalSize * factor
        den == maxParts * 1000
    IN  IF num < minOrderSize * den THEN minOrderSize
        ELSE IF num > execMaxOrderSize * den THEN execMaxOrderSize
        ELSE num \div den

\* calculateExecutionPlan scheduling the first part one interval after now
calculateExecutionPlan_delayedStart(totalSize, duration, maxParts, quotes) ==
    [ i \in 1..maxParts |->
        [ partIndex |-> i - 1,
          size |-> partSizeOf(totalSize, maxParts, quotes),
          executionTime |-> now + i * (duration \div maxParts),
          status |-> "pending",
          targetPrice |-> IF quotes.null THEN 0 ELSE quotes.reservationPrice ] ]

calculateExecutionPlan(totalSize, duration, maxParts, quotes) ==
    [ i \in 1..maxParts |->
        [ partIndex |-> i - 1,
          size |-> partSizeOf(totalSize, maxParts, quotes),
          executionTime |-> now + (i - 1) * (duration \div maxParts),
          status |-> "pending",
          targetPrice |-> IF quotes.null THEN 0 ELSE quotes.reservationPrice ] ]

RECURSIVE SumSizes(_, _)
SumSizes(plan, n) == IF n = 0 THEN 0 ELSE plan[n].size + SumSizes(plan, n - 1)

PlanSize(plan) == SumSizes(plan, Len(plan))

OrderObjs == 1..Len(orders)

\* ids: 0 is the id a caller supplies, 1..MaxOrders those made from orderCounter
OrderIds == 0..MaxOrders

\* completeOrder / failOrder on the object activeOrders holds under id (a
\* no-op when there is none); st = [o |-> orders, a |-> activeOrders]
EndOrder(st, id, status) ==
    IF st.a[id] = 0 THEN st
    ELSE [ o |-> [st.o EXCEPT ![st.a[id]].status = status],
           a |-> [st.a EXCEPT ![id] = 0] ]

completeOrder(st, id) == EndOrder(st, id, "completed")

failOrder(st, id) == EndOrder(st, id, "failed")

\* the events completeOrder and failOrder emit in a step that leaves the
\* order objects as after: each emits, orderCompleted or orderFailed, exactly
\* when it finds its order and sets its status
OrderEvents(after) ==
    { e \in {"orderCompleted", "orderFailed"} :
        \E k \in 1..Len(after) :
            /\ after[k].status = (IF e = "orderCompleted" THEN "completed" ELSE "failed")
            /\ (k > Len(orders) \/ orders[k].status = "active") }

\* updateBalances emits balanceUpdate when the balanceOf calls succeeded
balanceUpdateEvents(balancesOk) == IF balancesOk THEN {"balanceUpdate"} ELSE {}

\* the events of evaluateOrderCreation and executeManualOrder: those of
\* executeTWAPOrder when validateOrder passed, none when it threw (the catch
\* blocks log, and executeManualOrder rethrows to its caller)
creationEvents(result, after) ==
    IF result = "ok" THEN {"orderStarted"} \cup OrderEvents(after) ELSE {}
\* executeNextPart without the test of the part's executionTime
executeNextPart_noTimeCheck(st, k) ==
    LET ord == st.o[k]
        idx == ord.executedParts + 1
    IN  IF idx > Len(ord.executionPlan)
           \/ ord.executionPlan[idx].status # "pending"
        THEN completeOrder([st EXCEPT !.o[k].pc = "stopped"], ord.id)
        ELSE IF st.a[ord.id] = 0
        THEN failOrder([st EXCEPT !.o[k].pc = "stopped",
                                  !.o[k].executionPlan[idx].status = "failed"],
                       ord.id)
        ELSE [st EXCEPT !.o[k].pc = "backend", !.o[k].target = st.a[ord.id]]

\* one run of executeNextPart for order object k, up to its first suspension
executeNextPart(st, k) ==
    LET ord == st.o[k]
        idx == ord.executedParts + 1
    IN  IF idx > Len(ord.executionPlan)
           \/ ord.executionPlan[idx].status # "pending"
        THEN completeOrder([st EXCEPT !.o[k].pc = "stopped"], ord.id)
        ELSE IF now < ord.executionPlan[idx].executionTime
        THEN [st EXCEPT !.o[k].pc = "timer",
                        !.o[k].timerDue = ord.executionPlan[idx].executionTime]
        ELSE IF st.a[ord.id] = 0
        \* executePart finds no order under the id: TypeError, part failed,
        \* failOrder finds nothing either
        THEN failOrder([st EXCEPT !.o[k].pc = "stopped",
                                  !.o[k].executionPlan[idx].status = "failed"],
                       ord.id)
        ELSE [st EXCEPT !.o[k].pc = "backend", !.o[k].target = st.a[ord.id]]

\* executeTWAPOrder: plan, store under the id, start the execution loop
executeTWAPOrder(order) ==
    LET k == Len(orders) + 1
        obj == [ id |-> order.id,
                 direction |-> order.direction,
                 totalSize |-> order.totalSize,
                 duration |-> order.duration,
                 maxParts |-> order.maxParts,
                 startTime |-> now,
                 executionPlan |-> calculateExecutionPlan(order.totalSize,
                                       order.duration, order.maxParts, order.quotes),
                 executedParts |-> 0,
                 executedSize |-> 0,
                 status |-> "active",
                 pc |-> "new",
                 timerDue |-> 0,
                 target |-> 0 ]
        st == executeNextPart([ o |-> Append(orders, obj),
                                a |-> [activeOrders EXCEPT ![order.id] = k] ], k)
    IN  /\ orders' = st.o
        /\ activeOrders' = st.a

\* handleBalanceUpdate: the risk update a balanceUpdate event triggers
\* (currentPrice = 0: getCurrentPrice() returned null)
handleBalanceUpdate(inventory, currentPrice) ==
    IF currentPrice = 0 THEN UNCHANGED riskVars
    ELSE updateRiskMetrics([ hasPnl |-> FALSE, pnl |-> 0, direction |-> "none",
                             hasSize |-> FALSE, size |-> 0,
                             currentInventory |-> inventory,
                             currentPrice |-> currentPrice ])

\* updateBalances: balancesOk is whether the balanceOf calls succeeded
updateBalances(balancesOk, inventory, currentPrice) ==
    IF balancesOk
    THEN /\ currentInventory' = inventory
         /\ handleBalanceUpdate(inventory, currentPrice)
    ELSE UNCHANGED <<currentInventory, riskVars>>

\* the setTimeout callback of order object k runs
TimerFires(k) ==
    /\ orders[k].pc = "timer"
    /\ now >= orders[k].timerDue
    /\ LET st == executeNextPart([o |-> orders, a |-> activeOrders], k)
       IN  orders' = st.o /\ activeOrders' = st.a
    /\ last' = [op |-> "executeNextPart", result |-> "ok", value |-> 0,
                events |-> OrderEvents(orders')]
    /\ UNCHANGED <<riskVars, today, now, currentInventory, executionHistory, botVars, modelVars, contractVars, runVars>>

\* executePart returning as soon as the backend call does, without awaiting
\* updateBalances and without the history entry
BackendReturns_noAwait(k, txOk) ==
    /\ orders[k].pc = "backend"
    /\ LET ord == orders[k]
           idx == ord.executedParts + 1
           part == ord.executionPlan[idx]
           st0 == [ o |-> [orders EXCEPT
                             ![k].executionPlan[idx].status =
                                 IF txOk THEN "executed" ELSE "failed",
                             ![k].executedParts = IF txOk THEN idx ELSE @,
                             ![ord.target].executedSize =
                                 IF txOk THEN @ + part.size ELSE @],
                    a |-> activeOrders ]
           st == IF ~txOk THEN failOrder([st0 EXCEPT !.o[k].pc = "stopped"], ord.id)
                 ELSE IF idx < Len(ord.executionPlan)
                 THEN [st0 EXCEPT !.o[k].pc = "timer", !.o[k].timerDue = now + partDelay]
                 ELSE completeOrder([st0 EXCEPT !.o[k].pc = "stopped"], ord.id)
       IN  /\ orders' = st.o /\ activeOrders' = st.a
           /\ last' = [op |-> "executePart",
                       result |-> IF txOk THEN "executed" ELSE "failed", value |-> 0,
                       events |-> OrderEvents(orders')]
    /\ UNCHANGED <<riskVars, today, now, currentInventory, executionHistory, botVars, modelVars, contractVars, runVars>>

\* the backend call of the part in flight of order object k returns
BackendReturns(k, txOk) ==
    /\ orders[k].pc = "backend"
    /\ LET ord == orders[k]
           idx == ord.executedParts + 1
           part == ord.executionPlan[idx]
       IN  IF txOk
           THEN /\ orders' = [orders EXCEPT
                        ![k].executionPlan[idx].status = "executed",
                        ![k].pc = "balances",
                        ![ord.target].executedSize = @ + part.size]
                /\ UNCHANGED activeOrders
                /\ last' = [op |-> "executePart", result |-> "executed", value |-> 0,
                            events |-> {}]
           ELSE /\ LET st == failOrder(
                             [ o |-> [orders EXCEPT
                                        ![k].executionPlan[idx].status = "failed",
                                        ![k].pc = "stopped"],
                               a |-> activeOrders ], ord.id)
                   IN  orders' = st.o /\ activeOrders' = st.a
                /\ last' = [op |-> "executePart", result |-> "failed", value |-> 0,
                            events |-> OrderEvents(orders')]
    /\ UNCHANGED <<riskVars, today, now, currentInventory, executionHistory, botVars, modelVars, contractVars, runVars>>

\* executePart with a partExecuted handler that throws: the catch block marks
\* the part failed after it was marked executed, and the order fails
BalancesReturn_handlerThrows(k, balancesOk, inventory, currentPrice) ==
    /\ orders[k].pc = "balances"
    /\ updateBalances(balancesOk, inventory, currentPrice)
    /\ LET idx == orders[k].executedParts + 1
           st == failOrder([ o |-> [orders EXCEPT
                                      ![k].executionPlan[idx].status = "failed",
                                      ![k].pc = "stopped"],
                             a |-> activeOrders ], orders[k].id)
       IN  orders' = st.o /\ activeOrders' = st.a
    /\ last' = [op |-> "partProcessed", result |-> "failed", value |-> 0,
                events |-> balanceUpdateEvents(balancesOk) \cup {"partExecuted"}
                             \cup OrderEvents(orders')]
    /\ UNCHANGED <<today, now, executionHistory, botVars, modelVars, contractVars, runVars>>

\* updateBalances of the part of order object k returns; executePart finishes
\* and executeNextPart schedules the next part or completes the order
BalancesReturn(k, balancesOk, inventory, currentPrice) ==
    /\ orders[k].pc = "balances"
    /\ updateBalances(balancesOk, inventory, currentPrice)
    /\ executionHistory' = Append(executionHistory,
           [orderId |-> orders[k].id, partIndex |-> orders[k].executedParts])
    /\ LET n == orders[k].executedParts + 1
           st0 == [ o |-> [orders EXCEPT ![k].executedParts = n], a |-> activeOrders ]
           st == IF n < Len(orders[k].executionPlan)
                 THEN [st0 EXCEPT !.o[k].pc = "timer", !.o[k].timerDue = now + partDelay]
                 ELSE completeOrder([st0 EXCEPT !.o[k].pc = "stopped"], orders[k].id)
       IN  orders' = st.o /\ activeOrders' = st.a
    /\ last' = [op |-> "partProcessed", result |-> "ok", value |-> 0,
                events |-> balanceUpdateEvents(balancesOk) \cup {"partExecuted"}
                             \cup OrderEvents(orders')]
    /\ UNCHANGED <<today, now, botVars, modelVars, contractVars, runVars>>

(* ------------------------------------------------------------------ *)
(* TWAPTradingBot                                                      *)
(* ------------------------------------------------------------------ *)
\* determineOrderDirection applying the inventory rule before the price rule
determineOrderDirection_rebalanceFirst(quotes, inventory) ==
    LET currentPrice == quotes.reservationPrice
        mid2 == quotes.bidPrice + quotes.askPrice
        ethValue == (inventory.ETH * currentPrice) \div 100000
        totalValue == ethValue + inventory.USDT
    IN  IF totalValue # 0 /\ ethValue * 10 < 4 * totalValue THEN "buy"
        ELSE IF totalValue # 0 /\ ethValue * 10 > 6 * totalValue THEN "sell"
        ELSE IF currentPrice * 2000 > mid2 * 1002 /\ inventory.ETH > 10000 THEN "sell"
        ELSE IF ~(currentPrice * 2000 > mid2 * 1002)
                /\ currentPrice * 2000 < mid2 * 998
                /\ inventory.USDT * 10 > currentPrice THEN "buy"
        ELSE "none"

determineOrderDirection(quotes, inventory) ==
    LET currentPrice == quotes.reservationPrice
        mid2 == quotes.bidPrice + quotes.askPrice
        ethValue == (inventory.ETH * currentPrice) \div 100000
        totalValue == ethValue + inventory.USDT
    IN  IF currentPrice * 2000 > mid2 * 1002 /\ inventory.ETH > 10000 THEN "sell"
        ELSE IF ~(currentPrice * 2000 > mid2 * 1002)
                /\ currentPrice * 2000 < mid2 * 998
                /\ inventory.USDT * 10 > currentPrice THEN "buy"
        ELSE IF totalValue = 0 THEN "none"
        ELSE IF ethValue * 10 < 4 * totalValue THEN "buy"
        ELSE IF ethValue * 10 > 6 * totalValue THEN "sell"
        ELSE "none"

calculateBaseOrderSize(quotes, marketData) ==
    LET b0 == minOrderSize
        b1 == IF marketData.volatility # 0
              THEN (b0 * Max2(500, 1000 - 2 * marketData.volatility)) \div 1000
              ELSE b0
        b2 == IF quotes.optimalSpread * 1000 > quotes.reservationPrice
              THEN (b1 * Min2(2000, 1000 + (quotes.optimalSpread * 100000)
                                              \div quotes.reservationPrice)) \div 1000
              ELSE b1
    IN  Min2(execMaxOrderSize, Max2(minOrderSize, b2))

\* evaluateOrderCreation(quotes, marketData)
evaluateOrderCreation(quotes, marketData) ==
    LET inventory == currentInventory
        orderDirection == determineOrderDirection(quotes, inventory)
        order == [ id |-> orderCounter + 1,
                   direction |-> orderDirection,
                   totalSize |-> recommendPositionSize(
                                     calculateBaseOrderSize(quotes, marketData),
                                     marketData.volatility, inventory),
                   targetPrice |-> IF orderDirection = "buy" THEN quotes.bidPrice
                                   ELSE quotes.askPrice,
                   duration |-> orderDuration,
                   maxParts |-> maxOrderParts,
                   quotes |-> quotes ]
    IN  IF orderDirection = "none"
        THEN /\ last' = [op |-> "evaluateOrderCreation", result |-> "NoDirection",
                         value |-> now, events |-> {}]
             /\ UNCHANGED <<riskVars, today, now, execVars, botVars, modelVars, contractVars, runVars>>
        ELSE /\ initialized
             /\ Len(orders) < MaxOrders
             /\ orderCounter < MaxOrders
             /\ orderCounter' = orderCounter + 1
             /\ validateOrder(order, inventory, marketData)
             /\ LET result == validateOrderResult(order, inventory, marketData, dailyPnL')
                IN  /\ IF result = "ok"
                       THEN /\ executeTWAPOrder(order)
                            /\ totalOrders' = totalOrders + 1
                       ELSE UNCHANGED <<orders, activeOrders, totalOrders>>
                    /\ last' = [op |-> "evaluateOrderCreation", result |-> result,
                                value |-> now,
                                events |-> creationEvents(result, orders')]
             /\ UNCHANGED <<today, now, currentInventory, executionHistory, initialized, modelVars, contractVars, runVars>>

\* order specs of manual orders; hasId: the caller supplied the id (id 0).
\* The bot is run with specs that leave the id to it, so that ids are unique.
ManualOrderSpecs ==
    [ hasId : {FALSE}, direction : {"buy"}, totalSize : {60000, 150000},
      targetPrice : {2000}, duration : {2}, maxParts : {1, 2},
      quotes : {NoQuotes} ]

\* the snapshots the market data source hands to the bot
BotMarketData ==
    { md \in MarketDataSet :
        md.bidAskSpread = 10 /\ md.age = 0 /\ md.volatility = 0 }

\* executeManualOrder(orderSpec), marketData = getCurrentPrice()
executeManualOrder(orderSpec, marketData) ==
    LET inventory == currentInventory
        order == [ id |-> IF orderSpec.hasId THEN 0 ELSE orderCounter + 1,
                   direction |-> orderSpec.direction,
                   totalSize |-> orderSpec.totalSize,
                   targetPrice |-> orderSpec.targetPrice,
                   duration |-> orderSpec.duration,
                   maxParts |-> orderSpec.maxParts,
                   quotes |-> orderSpec.quotes ]
    IN  /\ initialized
        /\ Len(orders) < MaxOrders
        /\ IF orderSpec.hasId THEN UNCHANGED orderCounter
           ELSE orderCounter < MaxOrders /\ orderCounter' = orderCounter + 1
        /\ validateOrder(order, inventory, marketData)
        /\ LET result == validateOrderResult(order, inventory, marketData, dailyPnL')
           IN  /\ IF result = "ok"
                  THEN /\ executeTWAPOrder(order)
                       /\ totalOrders' = totalOrders + 1
                  ELSE UNCHANGED <<orders, activeOrders, totalOrders>>
               /\ last' = [op |-> "executeManualOrder", result |-> result, value |-> 0,
                           events |-> creationEvents(result, orders')]
        /\ UNCHANGED <<today, now, currentInventory, executionHistory, initialized, modelVars, contractVars, runVars>>

\* executor.initialize(): the first updateBalances
initialize(balancesOk, inventory, currentPrice) ==
    /\ ~initialized
    /\ initialized' = TRUE
    /\ updateBalances(balancesOk, inventory, currentPrice)
    /\ last' = [op |-> "initialize", result |-> IF balancesOk THEN "ok" ELSE "failed", value |-> 0,
                events |-> balanceUpdateEvents(balancesOk) \cup {"initialized"}]
    /\ UNCHANGED <<today, now, orders, activeOrders, executionHistory,
                   orderCounter, totalOrders, modelVars, contractVars, runVars>>

\* startQuoteGeneration: a new setInterval timer, kept in this.quoteInterval
startQuoteGeneration ==
    /\ quoteInterval' = TRUE
    /\ liveIntervals' = liveIntervals + 1

\* stopQuoteGeneration: clears the timer this.quoteInterval holds, if any
stopQuoteGeneration ==
    IF quoteInterval
    THEN quoteInterval' = FALSE /\ liveIntervals' = liveIntervals - 1
    ELSE UNCHANGED <<quoteInterval, liveIntervals>>

\* the ids under which activeOrders holds an order
ActiveOrderIds == { id \in OrderIds : activeOrders[id] # 0 }

\* start() up to its first await (marketData.initialize())
start ==
    /\ starting' = IF isRunning THEN starting ELSE starting + 1
    /\ last' = [op |-> "start",
                result |-> IF isRunning THEN "alreadyRunning" ELSE "awaiting",
                value |-> 0, events |-> {}]
    /\ UNCHANGED <<riskVars, today, now, execVars, botVars, modelVars, contractVars,
                   isRunning, quoteInterval, liveIntervals, stopWait>>

\* a start() call resumes: an initialisation threw (ok = FALSE: error event,
\* rethrown), or executor.initialize() read the balances, the feeds and the
\* quote generation are started and isRunning is set
startResumes(ok, balancesOk, inventory, currentPrice) ==
    /\ starting > 0
    /\ starting' = starting - 1
    /\ IF ok
       THEN /\ updateBalances(balancesOk, inventory, currentPrice)
            /\ initialized' = TRUE
            /\ startQuoteGeneration
            /\ isRunning' = TRUE
       ELSE UNCHANGED <<currentInventory, riskVars, initialized, quoteInterval,
                        liveIntervals, isRunning>>
    /\ last' = [op |-> "start", result |-> IF ok THEN "ok" ELSE "failed", value |-> 0,
                events |-> IF ok
                           THEN balanceUpdateEvents(balancesOk)
                                  \cup {"initialized", "started"}
                           ELSE {"error"}]
    /\ UNCHANGED <<today, now, orders, activeOrders, executionHistory, orderCounter,
                   totalOrders, modelVars, contractVars, stopWait>>

\* stop() up to the first sleep of waitForActiveOrders: with no active order
\* the loop is not entered and stopped is emitted at once
stop ==
    /\ IF ~isRunning
       THEN /\ UNCHANGED <<isRunning, quoteInterval, liveIntervals, stopWait>>
            /\ last' = [op |-> "stop", result |-> "notRunning", value |-> 0,
                        events |-> {}]
       ELSE /\ isRunning' = FALSE
            /\ stopQuoteGeneration
            /\ IF ActiveOrderIds = {}
               THEN /\ UNCHANGED stopWait
                    /\ last' = [op |-> "stop", result |-> "stopped",
                                value |-> [waited |-> 0, active |-> {}],
                                events |-> {"stopped"}]
               ELSE /\ stopWait' = [active |-> TRUE, startTime |-> now,
                                    due |-> now + pollInterval]
                    /\ last' = [op |-> "stop", result |-> "waiting", value |-> 0,
                                events |-> {}]
    /\ UNCHANGED <<riskVars, today, now, execVars, botVars, modelVars, contractVars,
                   starting>>

\* waitForActiveOrders with the timeout test left out
waitForActiveOrders_noTimeout ==
    /\ stopWait.active
    /\ now >= stopWait.due
    /\ IF ActiveOrderIds = {}
       THEN /\ stopWait' = [stopWait EXCEPT !.active = FALSE]
            /\ last' = [op |-> "stop", result |-> "stopped",
                        value |-> [waited |-> now - stopWait.startTime,
                                   active |-> ActiveOrderIds],
                        events |-> {"stopped"}]
       ELSE /\ stopWait' = [stopWait EXCEPT !.due = now + pollInterval]
            /\ last' = [op |-> "stop", result |-> "waiting", value |-> 0,
                        events |-> {}]
    /\ UNCHANGED <<riskVars, today, now, execVars, botVars, modelVars, contractVars,
                   isRunning, quoteInterval, liveIntervals, starting>>

\* waitForActiveOrders after a sleep: the loop ends when no order is active or
\* more than the timeout has passed, and stop() emits stopped; else it sleeps
\* again
waitForActiveOrders ==
    /\ stopWait.active
    /\ now >= stopWait.due
    /\ IF ActiveOrderIds = {} \/ now - stopWait.startTime > drainTimeout
       THEN /\ stopWait' = [stopWait EXCEPT !.active = FALSE]
            /\ last' = [op |-> "stop", result |-> "stopped",
                        value |-> [waited |-> now - stopWait.startTime,
                                   active |-> ActiveOrderIds],
                        events |-> {"stopped"}]
       ELSE /\ stopWait' = [stopWait EXCEPT !.due = now + pollInterval]
            /\ last' = [op |-> "stop", result |-> "waiting", value |-> 0,
                        events |-> {}]
    /\ UNCHANGED <<riskVars, today, now, execVars, botVars, modelVars, contractVars,
                   isRunning, quoteInterval, liveIntervals, starting>>

\* TWAPTradingBot.emergencyStop (POST /api/emergency-stop)
botEmergencyStop ==
    /\ activateEmergencyStop
    /\ stopQuoteGeneration
    /\ last' = [op |-> "emergencyStop", result |-> "ok", value |-> 0,
                events |-> {"emergencyStop"}]
    /\ UNCHANGED <<dailyPnL, currentPosition, positionNaN, peakValue, lastResetDate,
                   today, now, execVars, botVars, modelVars, contractVars,
                   isRunning, starting, stopWait>>

\* TWAPTradingBot.resetEmergencyStop (POST /api/reset-emergency)
botResetEmergencyStop ==
    /\ isRunning => liveIntervals < MaxIntervals
    /\ resetEmergencyStop
    /\ IF isRunning THEN startQuoteGeneration
       ELSE UNCHANGED <<quoteInterval, liveIntervals>>
    /\ last' = [op |-> "resetEmergencyStop", result |-> "ok", value |-> 0,
                events |-> {"emergencyStopReset"}]
    /\ UNCHANGED <<dailyPnL, currentPosition, positionNaN, peakValue, lastResetDate,
                   today, now, execVars, botVars, modelVars, contractVars,
                   isRunning, starting, stopWait>>

\* riskManager.resumeTrading()
ResumeTradingCall ==
    /\ resumeTrading
    /\ last' = [op |-> "resumeTrading", result |-> "ok", value |-> 0, events |-> {}]
    /\ UNCHANGED <<dailyPnL, currentPosition, positionNaN, peakValue, lastResetDate,
                   today, now, execVars, botVars, modelVars, contractVars, runVars>>

(* ------------------------------------------------------------------ *)
(* Wall clock                                                          *)
(* ------------------------------------------------------------------ *)
Tick ==
    /\ now < MaxTime
    /\ now' = now + 1
    /\ last' = [op |-> "tick", result |-> "ok", value |-> 0, events |-> {}]
    /\ UNCHANGED <<riskVars, today, execVars, botVars, modelVars, contractVars, runVars>>

DateChange ==
    /\ today < MaxDay
    /\ today' = today + 1
    /\ last' = [op |-> "dateChange", result |-> "ok", value |-> 0, events |-> {}]
    /\ UNCHANGED <<riskVars, now, execVars, botVars, modelVars, contractVars, runVars>>

(* ------------------------------------------------------------------ *)
(* The RiskManager on its own: calls of its public methods             *)
(* ------------------------------------------------------------------ *)
RiskOrders ==
    [ direction : Directions, totalSize : {100000, 150000},
      targetPrice : {2000, 2020} ]

RiskInventories == InventorySet

RiskMarketData == { md \in MarketDataSet : md.volatility = 0 }

\* execution results: a full one, and the one handleBalanceUpdate passes
ExecutionResults ==
    [ hasPnl : {TRUE}, pnl : {-500, 0, 500}, direction : Directions,
      hasSize : {TRUE}, size : {600000}, currentInventory : InventorySet,
      currentPrice : PriceSet ]
    \cup [ hasPnl : {FALSE}, pnl : {0}, direction : {"none"}, hasSize : {FALSE},
           size : {0}, currentInventory : InventorySet, currentPrice : PriceSet ]

ValidateOrderCall ==
    \E order \in RiskOrders, inventory \in RiskInventories,
       marketData \in RiskMarketData \cup {NullMarketData} :
        /\ validateOrder(order, inventory, marketData)
        /\ last' = [op |-> "validateOrder",
                    result |-> validateOrderResult(order, inventory, marketData, dailyPnL'),
                    value |-> [order |-> order, inventory |-> inventory,
                               marketData |-> marketData],
                    events |-> {}]
        /\ UNCHANGED <<today, now, execVars, botVars, modelVars, contractVars, runVars>>

UpdateRiskMetricsCall ==
    \E executionResult \in ExecutionResults :
        /\ dailyPnL + executionResult.pnl >= -(500 * MaxPnLSteps)
        /\ dailyPnL + executionResult.pnl <= 0
        /\ Abs(currentPosition + (IF executionResult.direction = "buy"
                                  THEN executionResult.size
                                  ELSE -executionResult.size))
             <= 600000 * MaxPosSteps
        /\ updateRiskMetrics(executionResult)
        /\ last' = [op |-> "updateRiskMetrics", result |-> "ok",
                    value |-> executionResult, events |-> {}]
        /\ UNCHANGED <<today, now, execVars, botVars, modelVars, contractVars, runVars>>

RecommendPositionSizeCall ==
    \E baseSize \in {1000, 2000, 200000}, volatility \in {0, 250} :
        /\ last' = [op |-> "recommendPositionSize", result |-> "ok",
                    value |-> [ baseSize |-> baseSize, volatility |-> volatility,
                                size |-> recommendPositionSize(baseSize, volatility,
                                                               currentInventory) ],
                    events |-> {}]
        /\ UNCHANGED <<riskVars, today, now, execVars, botVars, modelVars, contractVars, runVars>>

ResetEmergencyStopCall ==
    /\ resetEmergencyStop
    /\ last' = [op |-> "resetEmergencyStop", result |-> "ok", value |-> 0, events |-> {}]
    /\ UNCHANGED <<dailyPnL, currentPosition, positionNaN, peakValue, lastResetDate,
                   today, now, execVars, botVars, modelVars, contractVars, runVars>>

NextRisk ==
    \/ ValidateOrderCall
    \/ UpdateRiskMetricsCall
    \/ RecommendPositionSizeCall
    \/ ResumeTradingCall
    \/ ResetEmergencyStopCall
    \/ DateChange

(* ------------------------------------------------------------------ *)
(* The bot: orchestrator, executor and risk manager wired together     *)
(* ------------------------------------------------------------------ *)
Init ==
    /\ dailyPnL = 0
    /\ currentPosition = 0
    /\ positionNaN = FALSE
    /\ peakValue = 0
    /\ lastResetDate = 0
    /\ emergencyStop = FALSE
    /\ tradingPaused = FALSE
    /\ today = 0
    /\ now = 0
    /\ orders = <<>>
    /\ activeOrders = [id \in OrderIds |-> 0]
    /\ currentInventory = [ETH |-> 0, USDT |-> 0]
    /\ executionHistory = <<>>
    /\ orderCounter = 0
    /\ totalOrders = 0
    /\ initialized = FALSE
    /\ model = AvellanedaStoikovModel([gamma |-> 0, sigma |-> 0, T |-> 0, k |-> 0])
    /\ modelState = [S |-> 0, q |-> 0, t |-> 0, historyLength |-> 0]
    /\ quoted = [S |-> 0, q |-> 0, t |-> 0,
                 model |-> AvellanedaStoikovModel([gamma |-> 0, sigma |-> 0, T |-> 0,
                                                   k |-> 0])]
    /\ modelQuote = [ null |-> TRUE, bidPrice |-> 0, askPrice |-> 0,
                      reservationPrice |-> 0, spread |-> 0, inventoryAdjustment |-> 0 ]
    /\ isRunning = FALSE
    /\ quoteInterval = FALSE
    /\ liveIntervals = 0
    /\ starting = 0
    /\ stopWait = [active |-> FALSE, startTime |-> 0, due |-> 0]
    /\ twap = [ totalAmountToTrade |-> 0, numberOfParts |-> 0, executedParts |-> 0,
                startTime |-> 0, endTime |-> 0, inventory |-> 0 ]
    /\ nuvexWallet = [ twapOrders |-> NoTwapOrder,
                       twapExecutions |-> [i \in PartIndices |-> NoExecution],
                       twapExecutedParts |-> 0 ]
    /\ last = [op |-> "constructor", result |-> "ok", value |-> 0, events |-> {}]

\* what updateBalances and the getCurrentPrice() of handleBalanceUpdate can
\* yield: the balanceOf calls fail, or balances and a price (0: no price)
BalanceOutcomes ==
    { [ok |-> FALSE, inventory |-> [ETH |-> 0, USDT |-> 0], currentPrice |-> 0] }
    \cup [ ok : {TRUE}, inventory : InventorySet, currentPrice : PriceSet \cup {0} ]

Initialize ==
    \E b \in BalanceOutcomes : initialize(b.ok, b.inventory, b.currentPrice)

EvaluateOrderCreation ==
    \E quotes \in QuoteSet, marketData \in BotMarketData :
        evaluateOrderCreation(quotes, marketData)

ExecuteManualOrder ==
    \E orderSpec \in ManualOrderSpecs, marketData \in BotMarketData \cup {NullMarketData} :
        executeManualOrder(orderSpec, marketData)

ExecuteNextPart == \E k \in OrderObjs : TimerFires(k)

ExecutePartDone == \E k \in OrderObjs, txOk \in BOOLEAN : BackendReturns(k, txOk)

PartProcessed ==
    \E k \in OrderObjs, b \in BalanceOutcomes :
        BalancesReturn(k, b.ok, b.inventory, b.currentPrice)

Next ==
    \/ Initialize
    \/ EvaluateOrderCreation
    \/ ExecuteManualOrder
    \/ ExecuteNextPart
    \/ ExecutePartDone
    \/ PartProcessed
    \/ botEmergencyStop
    \/ botResetEmergencyStop
    \/ Tick

Spec == Init /\ [][Next]_vars

SpecRisk == Init /\ [][NextRisk]_vars

(* ------------------------------------------------------------------ *)
(* Claims about the RiskManager (checked under SpecRisk)               *)
(* ------------------------------------------------------------------ *)

\* C1: once updateRiskMetrics has driven dailyPnL below -maxDailyLoss, the
\* emergency stop is set, and from then on isTradingAllowed() is false after
\* every step other than resetEmergencyStop, validateOrder calls and daily
\* resets included.
C1_LossStopLatches ==
    [][ /\ (last'.op = "updateRiskMetrics" /\ dailyPnL' < -maxDailyLoss)
            => emergencyStop'
        /\ (emergencyStop /\ last'.op # "resetEmergencyStop")
            => (emergencyStop' /\ ~isTradingAllowed')
        /\ emergencyStop' => ~isTradingAllowed' ]_vars

\* C1 witness: an emergency stop that only the daily loss can have raised (the
\* peak never exceeded any reported value) is still in force after a
\* validateOrder call on a later day reset dailyPnL.
C1_Witness ==
    /\ last.op = "validateOrder"
    /\ last.result = "TradingNotAllowed"
    /\ emergencyStop
    /\ peakValue = 10000
    /\ today > 0 /\ lastResetDate = today /\ dailyPnL = 0

\* C4: after each updateRiskMetrics call, a daily loss beyond the limit or a
\* drawdown beyond maxDrawdown means emergencyStop; otherwise a position
\* beyond maxPositionSize means tradingPaused with emergencyStop unchanged;
\* otherwise both flags are as before the call.
C4_BreakerAfterUpdate ==
    [][ last'.op = "updateRiskMetrics" =>
          LET r == last'.value
              pv == (r.currentInventory.ETH * r.currentPrice) \div 100000
                      + r.currentInventory.USDT
          IN  IF \/ dailyPnL' < -maxDailyLoss
                 \/ (peakValue' > 0
                     /\ (peakValue' - pv) * 100 > maxDrawdown * peakValue')
              THEN emergencyStop'
              ELSE IF ~positionNaN' /\ Abs(currentPosition') > maxPositionSize
              THEN tradingPaused' /\ emergencyStop' = emergencyStop
              ELSE /\ emergencyStop' = emergencyStop
                   /\ tradingPaused' = tradingPaused ]_vars

\* C4 witness: an update left the manager Paused, not EmergencyStopped, with
\* the position beyond the limit.
C4_Witness ==
    /\ last.op = "updateRiskMetrics"
    /\ tradingPaused /\ ~emergencyStop
    /\ ~positionNaN /\ Abs(currentPosition) > maxPositionSize

\* C5: emergencyStop and tradingPaused are cleared by resetEmergencyStop and
\* resumeTrading only, never by validateOrder, updateRiskMetrics,
\* recommendPositionSize or a date change.
C5_OnlyExplicitReset ==
    [][ ((emergencyStop /\ ~emergencyStop') \/ (tradingPaused /\ ~tradingPaused'))
          => last'.op \in {"resetEmergencyStop", "resumeTrading"} ]_vars

\* C5 witness: the manager is still paused after an update that found no
\* limit breached any more.
C5_Witness ==
    /\ last.op = "updateRiskMetrics"
    /\ tradingPaused /\ ~emergencyStop
    /\ ~positionNaN /\ Abs(currentPosition) <= maxPositionSize
    /\ dailyPnL >= -maxDailyLoss

\* the constraints of validateOrder, each on its own, for a call with
\* arguments a made when the daily PnL (after the day's reset) is pnl
OrderSizeViolated(a) == a.order.totalSize > maxOrderSize

PositionViolated(a) ==
    Abs(a.inventory.ETH + (IF a.order.direction = "buy" THEN a.order.totalSize
                           ELSE -a.order.totalSize)) > maxPositionSize

DailyLossViolated(a, pnl) ==
    \/ pnl < -maxDailyLoss
    \/ /\ pnl + maxDailyLoss <= 20
       /\ (pnl + maxDailyLoss) * 100000000
            < 2 * a.order.totalSize * a.marketData.currentPrice

SpreadViolated(a) == a.marketData.bidAskSpread > 100

StaleViolated(a) == a.marketData.age > 30000

FlashCrashViolated(a) == a.marketData.priceChange24h < -200

SlippageViolated(a) ==
    Abs(a.order.targetPrice - a.marketData.currentPrice) * 1000
      > 5 * a.marketData.currentPrice

\* the first violated constraint in the stated order, "ok" when there is none
FirstViolated(a, pnl) ==
    IF emergencyStop \/ tradingPaused THEN "TradingNotAllowed"
    ELSE IF OrderSizeViolated(a) THEN "OrderSize"
    ELSE IF PositionViolated(a) THEN "Position"
    ELSE IF DailyLossViolated(a, pnl) THEN "DailyLoss"
    ELSE IF SpreadViolated(a) THEN "Spread"
    ELSE IF StaleViolated(a) THEN "Stale"
    ELSE IF FlashCrashViolated(a) THEN "FlashCrash"
    ELSE IF SlippageViolated(a) THEN "Slippage"
    ELSE "ok"

\* C7: validateOrder fails with the first violated constraint in the order
\* trading-allowed, order size, position, projected daily PnL, spread,
\* staleness, flash crash, slippage, and passes when none is violated; an
\* order above maxOrderSize submitted while trading is allowed gets the
\* order-size error whatever the market snapshot.
C7_FirstViolatedConstraint ==
    [][ last'.op = "validateOrder" =>
          /\ ~last'.value.marketData.null =>
                last'.result = FirstViolated(last'.value, dailyPnL')
          /\ (isTradingAllowed /\ OrderSizeViolated(last'.value))
                => last'.result = "OrderSize" ]_vars

\* C7 witness: a validateOrder call was rejected for the order size.
C7_Witness ==
    /\ last.op = "validateOrder" /\ last.result = "OrderSize"
    /\ isTradingAllowed
    /\ last.value.marketData.null

\* C8 as stated: a failing validateOrder leaves the RiskManager state and the
\* inventory exactly as they were.
C8_FailedValidationChangesNothing ==
    [][ (last'.op = "validateOrder" /\ last'.result # "ok")
          => UNCHANGED <<riskVars, currentInventory>> ]_vars

\* C8 amended: a failing validateOrder leaves currentPosition, peakValue,
\* emergencyStop, tradingPaused and the inventory as they were; dailyPnL and
\* lastResetDate are as they were unless the date differs from lastResetDate,
\* in which case dailyPnL is 0 and lastResetDate is the current date.
C8_FailedValidationOnlyRollsDay ==
    [][ (last'.op = "validateOrder" /\ last'.result # "ok") =>
          /\ UNCHANGED <<currentPosition, positionNaN, peakValue, emergencyStop,
                         tradingPaused, currentInventory>>
          /\ IF today # lastResetDate
             THEN dailyPnL' = 0 /\ lastResetDate' = today
             ELSE UNCHANGED <<dailyPnL, lastResetDate>> ]_vars

\* C8 witness: a validateOrder call failed on a day after the construction
\* day, with the daily PnL reset.
C8_Witness ==
    /\ last.op = "validateOrder" /\ last.result # "ok"
    /\ today > 0 /\ lastResetDate = today /\ dailyPnL = 0
    /\ peakValue > 0

\* C9: with trading allowed and the order-size, position, daily-loss, spread
\* and staleness constraints met, a snapshot whose 24h price change is below
\* -20% makes validateOrder fail with the flash-crash condition.
C9_FlashCrashRejected ==
    [][ ( /\ last'.op = "validateOrder"
          /\ ~last'.value.marketData.null
          /\ FlashCrashViolated(last'.value)
          /\ isTradingAllowed
          /\ ~OrderSizeViolated(last'.value)
          /\ ~PositionViolated(last'.value)
          /\ ~DailyLossViolated(last'.value, dailyPnL')
          /\ ~SpreadViolated(last'.value)
          /\ ~StaleViolated(last'.value) )
        => last'.result = "FlashCrash" ]_vars

\* C9 witness: a validateOrder call failed with the flash-crash condition.
C9_Witness ==
    /\ last.op = "validateOrder" /\ last.result = "FlashCrash"
    /\ last.value.marketData.priceChange24h < -200
    /\ last.value.order.targetPrice # last.value.marketData.currentPrice

(* ------------------------------------------------------------------ *)
(* The executor on its own: executeTWAPOrder called with any order     *)
(* ------------------------------------------------------------------ *)
\* orders as the bot builds them (sizes of 0.01 to 0.02 ETH), larger ones
\* within maxOrderSize, and orders with a totalSize or a maxParts of 0;
\* durations of 1 s, 2 s and 300 s (300000 ms)
PlanOrders ==
    [ id : {1}, direction : {"buy"},
      totalSize : {0, 1000, 1500, 2000, 60000, 100000},
      targetPrice : {2000}, duration : {1, 2, 300}, maxParts : {0, 1, 2, 3, 10},
      quotes : QuoteSet \cup {NoQuotes} ]

ExecuteTWAPOrderCall ==
    \E order \in PlanOrders :
        /\ orders = <<>>
        /\ executeTWAPOrder(order)
        /\ last' = [op |-> "executeTWAPOrder", result |-> "ok", value |-> order,
                    events |-> {"orderStarted"} \cup OrderEvents(orders')]
        /\ UNCHANGED <<riskVars, today, now, currentInventory, executionHistory,
                       botVars, modelVars, contractVars, runVars>>

NextPlan ==
    \/ ExecuteTWAPOrderCall
    \/ ExecuteNextPart
    \/ ExecutePartDone
    \/ PartProcessed
    \/ Tick

SpecPlan == Init /\ [][NextPlan]_vars

(* ------------------------------------------------------------------ *)
(* Claims about the bot and the executor                               *)
(* ------------------------------------------------------------------ *)
ExecutorOps == {"executeNextPart", "executePart", "partProcessed"}

CreationOps == {"evaluateOrderCreation", "executeManualOrder"}

\* C2: an order is handed to executeTWAPOrder only in the step in which
\* validateOrder returned successfully for it (trading allowed, size within
\* maxOrderSize, resulting position within maxPositionSize); an order that
\* validateOrder rejects is never started.
C2_ValidatedBeforeExecution ==
    [][ /\ Len(orders') > Len(orders) =>
              LET o == orders'[Len(orders')]
              IN  /\ Len(orders') = Len(orders) + 1
                  /\ last'.op \in CreationOps
                  /\ last'.result = "ok"
                  /\ ~emergencyStop /\ ~tradingPaused
                  /\ o.totalSize <= maxOrderSize
                  /\ Abs(currentInventory.ETH
                         + (IF o.direction = "buy" THEN o.totalSize
                            ELSE -o.totalSize)) <= maxPositionSize
        /\ (last'.op \in CreationOps /\ last'.result # "ok")
              => UNCHANGED <<orders, activeOrders, executionHistory, totalOrders>> ]_vars

\* C2 witness: a manual order passed validation and its first part is in
\* flight.
C2_Witness ==
    /\ last.op = "executeManualOrder" /\ last.result = "ok"
    /\ Len(orders) >= 1
    /\ orders[Len(orders)].pc = "backend"
    /\ orders[Len(orders)].totalSize = 60000

\* C3: the part sizes of every order's execution plan sum to the order's
\* totalSize to within one minimum lot.
C3_PlanSumsToTotalSize ==
    \A k \in OrderObjs :
        Abs(PlanSize(orders[k].executionPlan) - orders[k].totalSize) <= minOrderSize

\* C6: while emergencyStop is set no order is added and no id becomes active;
\* the orders that exist are changed by their own execution steps only, and
\* the emergency stop itself leaves them as they are.
C6_StopBlocksNewOrdersOnly ==
    [][ /\ emergencyStop =>
              /\ Len(orders') = Len(orders)
              /\ \A id \in OrderIds : activeOrders[id] = 0 => activeOrders'[id] = 0
              /\ last'.op \notin ExecutorOps => UNCHANGED <<orders, activeOrders>>
        /\ last'.op = "emergencyStop" => UNCHANGED <<orders, activeOrders>> ]_vars

\* C6 witness: with the emergency stop set, the second part of an order that
\* is still active has just been dispatched.
C6_Witness ==
    /\ emergencyStop
    /\ last.op = "executeNextPart"
    /\ \E k \in OrderObjs :
          /\ orders[k].status = "active"
          /\ orders[k].pc = "backend"
          /\ orders[k].executedParts = 1

HistoryOf(id) ==
    { i \in 1..Len(executionHistory) : executionHistory[i].orderId = id }

RECURSIVE ExecutedSizeOf(_, _)
ExecutedSizeOf(plan, n) ==
    IF n = 0 THEN 0
    ELSE (IF plan[n].status = "executed" THEN plan[n].size ELSE 0)
           + ExecutedSizeOf(plan, n - 1)

\* C10: for each order, when its next part is in flight or waiting for its
\* timer, every earlier part is executed, counted in executedParts and
\* executedSize and entered in the history, and every later part is pending:
\* one part at most is beyond executedParts, the one in flight.
C10_PartsProcessedInSequence ==
    \A k \in OrderObjs :
        LET ord == orders[k]
            n == ord.executedParts
            plan == ord.executionPlan
        IN  /\ n <= Len(plan)
            /\ \A i \in 1..Len(plan) :
                  /\ i <= n => plan[i].status = "executed"
                  /\ i > n + 1 => plan[i].status = "pending"
            /\ Cardinality(HistoryOf(ord.id)) = n
            /\ \A i \in HistoryOf(ord.id) :
                  executionHistory[i].partIndex < n
            /\ ord.executedSize = ExecutedSizeOf(plan, Len(plan))
            /\ ord.pc \in {"backend", "timer"} =>
                  n < Len(plan) /\ plan[n + 1].status = "pending"
            /\ ord.pc = "balances" =>
                  n < Len(plan) /\ plan[n + 1].status = "executed"
            /\ ord.pc \in {"backend", "timer", "balances"} <=> ord.status = "active"

\* C10 witness: the second part of an order is in flight, the first one
\* executed and in the history.
C10_Witness ==
    \E k \in OrderObjs :
        /\ orders[k].pc = "backend"
        /\ orders[k].executedParts = 1
        /\ Len(orders[k].executionPlan) = 2
        /\ Cardinality(HistoryOf(orders[k].id)) = 1

\* C11: every part starts pending, and a part whose status is executed or
\* failed keeps that status in every later step; the rest of the part (index,
\* size, time) never changes.
C11_PartStatusSetOnce ==
    [][ /\ \A k \in OrderObjs :
              /\ Len(orders'[k].executionPlan) = Len(orders[k].executionPlan)
              /\ \A i \in 1..Len(orders[k].executionPlan) :
                    LET p == orders[k].executionPlan[i]
                        q == orders'[k].executionPlan[i]
                    IN  /\ p.status # "pending" => q = p
                        /\ q.status \in {"pending", "executed", "failed"}
                        /\ [q EXCEPT !.status = "pending"] = p
                             \/ q = p
        /\ Len(orders') > Len(orders) =>
              \A i \in 1..Len(orders'[Len(orders')].executionPlan) :
                  orders'[Len(orders')].executionPlan[i].status = "pending" ]_vars

\* C11 witness: the result of an executed part has been processed and the
\* order has gone on to its next part.
C11_Witness ==
    /\ last.op = "executeNextPart"
    /\ \E k \in OrderObjs :
          /\ orders[k].executionPlan[1].status = "executed"
          /\ orders[k].executedParts = 1
          /\ orders[k].pc = "backend"

(* ------------------------------------------------------------------ *)
(* The executor called with ids chosen by the caller                   *)
(* (POST /api/order passes the request body, id included, on to        *)
(* executeManualOrder, which keeps an id that is present)              *)
(* ------------------------------------------------------------------ *)
CallerOrders ==
    [ id : {0, 1}, direction : {"buy"}, totalSize : {60000},
      targetPrice : {2000}, duration : {2}, maxParts : {1, 2},
      quotes : {NoQuotes} ]

ExecuteCallerOrder ==
    \E order \in CallerOrders :
        /\ Len(orders) < MaxOrders
        /\ executeTWAPOrder(order)
        /\ last' = [op |-> "executeTWAPOrder", result |-> "ok", value |-> order.id,
                    events |-> {"orderStarted"} \cup OrderEvents(orders')]
        /\ UNCHANGED <<riskVars, today, now, currentInventory, executionHistory,
                       botVars, modelVars, contractVars, runVars>>

NextExec ==
    \/ ExecuteCallerOrder
    \/ ExecuteNextPart
    \/ ExecutePartDone
    \/ PartProcessed
    \/ Tick

SpecExec == Init /\ [][NextExec]_vars

TerminalStatuses == {"completed", "failed"}

\* C12: an order is active from executeTWAPOrder on and in activeOrders under
\* its id exactly while it is active; it takes a terminal status once, when
\* its execution ends, keeps it, and is out of activeOrders from then on.
C12_OneTerminalState ==
    [][ \A k \in OrderObjs :
          /\ orders[k].status \in TerminalStatuses
                => orders'[k].status = orders[k].status
          /\ orders'[k].status \in TerminalStatuses
                => activeOrders'[orders[k].id] # k
          /\ orders'[k].status = "active"
                => activeOrders'[orders[k].id] = k
          /\ orders'[k].pc = "stopped"
                => orders'[k].status \in TerminalStatuses ]_vars

\* C13: when the backend call of a part of an order fails, that part is
\* failed, the order is failed and out of activeOrders, its execution has
\* stopped for good, and every other order is left exactly as it was.
C13_FailedPartFailsItsOrderOnly ==
    [][ \A k \in OrderObjs :
          /\ ( /\ last'.op = "executePart" /\ last'.result = "failed"
                /\ orders[k].pc = "backend" /\ orders'[k].pc # "backend" )
              => /\ orders'[k].executionPlan[orders[k].executedParts + 1].status
                      = "failed"
                 /\ orders'[k].executedParts = orders[k].executedParts
                 /\ orders'[k].status = "failed"
                 /\ activeOrders'[orders[k].id] # k
                 /\ \A j \in OrderObjs \ {k} : orders'[j] = orders[j]
                 /\ \A id \in OrderIds \ {orders[k].id} :
                       activeOrders'[id] = activeOrders[id]
          /\ orders[k].pc = "stopped" => orders'[k] = orders[k] ]_vars

AllPartsExecuted(ord) ==
    \A i \in 1..Len(ord.executionPlan) : ord.executionPlan[i].status = "executed"

\* C14: no part of an order is dispatched after the order's end-time
\* (startTime + duration), and an order all of whose parts are executed and
\* processed is completed.
C14_CompletedByEndTime ==
    [][ \A k \in 1..Len(orders') :
          LET ord == orders'[k]
          IN  /\ ( /\ ord.pc = "backend"
                    /\ (k > Len(orders) \/ orders[k].pc # "backend") )
                  => now' <= ord.startTime + ord.duration
              /\ (AllPartsExecuted(ord) /\ ord.pc # "balances")
                  => ord.status = "completed" ]_vars

(* ------------------------------------------------------------------ *)
(* AvellanedaStoikovTWAP.sol: the on-chain TWAP                        *)
(* (block.timestamp is the wall clock now, in seconds; a call that     *)
(* reverts leaves the storage as it was)                               *)
(* ------------------------------------------------------------------ *)
\* msg.sender: the deployer, the authorized bot, or the limit order protocol
\* calling back in during fillOrder
Senders == {"owner", "bot", "protocol"}

\* the requires of startTWAP, onlyOwner included
startTWAPAccepted(sender, _totalAmount, _numberOfParts, _startTime, _endTime) ==
    /\ sender = "owner"
    /\ _startTime < _endTime
    /\ _numberOfParts > 0
    /\ _totalAmount > 0

\* the storage after startTWAP
startTWAP(sender, _totalAmount, _numberOfParts, _startTime, _endTime) ==
    IF startTWAPAccepted(sender, _totalAmount, _numberOfParts, _startTime, _endTime)
    THEN [ totalAmountToTrade |-> _totalAmount,
           numberOfParts |-> _numberOfParts,
           startTime |-> _startTime,
           endTime |-> _endTime,
           executedParts |-> 0,
           inventory |-> 0 ]
    ELSE twap

amountPerPart == twap.totalAmountToTrade \div twap.numberOfParts

\* executeTWAPPart without its "All parts executed" require
executeTWAPPartAccepted_noPartsCheck(sender, makerAmount, quoteOk, fillOk) ==
    /\ sender = "bot"
    /\ now >= twap.startTime
    /\ now <= twap.endTime
    /\ twap.numberOfParts > 0
    /\ makerAmount = amountPerPart
    /\ quoteOk
    /\ fillOk

\* the requires of executeTWAPPart, onlyBot and the one of amountPerPart
\* included, and the two calls it makes before it writes: computeQuote
\* returns (quoteOk) and limitOrderProtocol.fillOrder returns (fillOk)
executeTWAPPartAccepted(sender, makerAmount, quoteOk, fillOk) ==
    /\ sender = "bot"
    /\ now >= twap.startTime
    /\ now <= twap.endTime
    /\ twap.executedParts < twap.numberOfParts
    /\ twap.numberOfParts > 0
    /\ makerAmount = amountPerPart
    /\ quoteOk
    /\ fillOk

\* the storage after executeTWAPPart
executeTWAPPart(sender, isSell, makerAmount, quoteOk, fillOk) ==
    IF executeTWAPPartAccepted(sender, makerAmount, quoteOk, fillOk)
    THEN [twap EXCEPT !.executedParts = @ + 1,
                      !.inventory = @ + (IF isSell THEN makerAmount ELSE -makerAmount)]
    ELSE twap

StartTWAP ==
    \E sender \in Senders, _totalAmount \in {0, 4}, _numberOfParts \in {0, 1, 2},
       _startTime \in {0, 1}, _endTime \in {1, 2} :
        /\ twap' = startTWAP(sender, _totalAmount, _numberOfParts, _startTime, _endTime)
        /\ UNCHANGED <<modelVars, nuvexWallet>>
        /\ last' = [op |-> "startTWAP",
                    result |-> IF startTWAPAccepted(sender, _totalAmount, _numberOfParts,
                                                    _startTime, _endTime)
                               THEN "ok" ELSE "reverted",
                    value |-> _numberOfParts,
                    events |-> IF startTWAPAccepted(sender, _totalAmount, _numberOfParts,
                                                    _startTime, _endTime)
                               THEN {"TWAPStarted"} ELSE {}]
        /\ UNCHANGED <<riskVars, today, now, execVars, botVars, runVars>>

ExecuteTWAPPart ==
    \E sender \in Senders, isSell \in BOOLEAN, makerAmount \in {2, 4},
       quoteOk \in BOOLEAN, fillOk \in BOOLEAN :
        /\ twap' = executeTWAPPart(sender, isSell, makerAmount, quoteOk, fillOk)
        /\ UNCHANGED <<modelVars, nuvexWallet>>
        /\ last' = [op |-> "executeTWAPPart",
                    result |-> IF executeTWAPPartAccepted(sender, makerAmount, quoteOk, fillOk)
                               THEN "ok" ELSE "reverted",
                    value |-> makerAmount,
                    events |-> IF executeTWAPPartAccepted(sender, makerAmount, quoteOk, fillOk)
                               THEN {"TWAPPartExecuted", "LimitOrderSubmitted"} ELSE {}]
        /\ UNCHANGED <<riskVars, today, now, execVars, botVars, runVars>>

\* one order of the executor, next to the on-chain TWAP
PartsOrders ==
    [ id : {1}, direction : {"buy", "sell"}, totalSize : {60000},
      targetPrice : {2000}, duration : {2}, maxParts : {1, 2},
      quotes : {NoQuotes} ]

ExecutePartsOrder ==
    \E order \in PartsOrders :
        /\ orders = <<>>
        /\ executeTWAPOrder(order)
        /\ last' = [op |-> "executeTWAPOrder", result |-> "ok", value |-> order.maxParts,
                    events |-> {"orderStarted"} \cup OrderEvents(orders')]
        /\ UNCHANGED <<riskVars, today, now, currentInventory, executionHistory,
                       botVars, modelVars, contractVars, runVars>>

NextParts ==
    \/ ExecutePartsOrder
    \/ ExecuteNextPart
    \/ ExecutePartDone
    \/ PartProcessed
    \/ Tick
    \/ StartTWAP
    \/ ExecuteTWAPPart

SpecParts == Init /\ [][NextParts]_vars

RECURSIVE SignedExecutedSize(_)
SignedExecutedSize(n) ==
    IF n = 0 THEN 0
    ELSE LET ord == orders[n]
             size == ExecutedSizeOf(ord.executionPlan, Len(ord.executionPlan))
         IN  (IF ord.direction = "buy" THEN size ELSE -size) + SignedExecutedSize(n - 1)

\* C17: once a part has been executed and every executed part has been
\* processed (its balance update included), currentPosition is the signed sum of the sizes of the parts
\* executed so far, buys added and sells subtracted, and dailyPnL is the sum
\* of their PnL, which the execution backend reports as 0 for every part.
C17_PositionIsSumOfExecutedParts ==
    ( /\ \E k \in OrderObjs : orders[k].executedParts > 0
      /\ \A k \in OrderObjs : orders[k].pc # "balances" )
        => /\ ~positionNaN
           /\ currentPosition = SignedExecutedSize(Len(orders))
           /\ dailyPnL = 0

\* C18: after validateOrder has rejected the order of an evaluation, no
\* evaluation follows before the cooldown of 60 s has passed (last.value of
\* an evaluation is the time it ran at).
C18_NoEvaluationDuringCooldown ==
    [][ ( /\ last.op = "evaluateOrderCreation"
          /\ last.result \notin {"ok", "NoDirection"}
          /\ last'.op = "evaluateOrderCreation" )
            => last'.value >= last.value + rejectionPause ]_vars

\* C19: every order that validation rejects and every failed part produces
\* an event: the step in which validateOrder rejects the order of an
\* evaluation or of a manual order emits a risk alert or orderFailed, and the
\* step in which a part fails emits orderFailed.
C19_NoSilentFailure ==
    /\ (last.op \in CreationOps /\ last.result \notin {"ok", "NoDirection", "TypeError"})
          => last.events \cap {"riskAlert", "orderFailed"} # {}
    /\ (last.op = "executePart" /\ last.result = "failed")
          => "orderFailed" \in last.events

(* ------------------------------------------------------------------ *)
(* The pricing model on its own: construction and quote computation    *)
(* ------------------------------------------------------------------ *)
\* constructor parameters (0: left out, or given as 0): gamma 0.1 or -0.1,
\* sigma 0.2 or 0.05, T 1.0, k 1.5 or 1000
ModelParams ==
    [ gamma : {-1000, 0, 1000}, sigma : {0, 500}, T : {0, 10000},
      k : {0, 10000000} ]

\* mid prices 1.0, 2000.0 and 3400.0
MidPrices == {10000, 20000000, 34000000}

Inventories == {-1000, -30, -3, -1, 0, 1, 3, 30, 1000}

\* elapsed times 0, T/2 and T, and two outside 0..T: -T/2 and 3T/2
ElapsedTimes == {-5000, 0, 5000, 10000, 15000}

NewModel ==
    \E params \in ModelParams :
        /\ model' = AvellanedaStoikovModel(params)
        /\ modelState' = [S |-> 0, q |-> 0, t |-> 0, historyLength |-> 0]
        /\ last' = [op |-> "AvellanedaStoikovModel", result |-> "ok", value |-> params,
                    events |-> {}]
        /\ UNCHANGED <<riskVars, today, now, execVars, botVars, modelQuote, quoted,
                       contractVars, runVars>>

CalculateOptimalQuotes ==
    \E S \in MidPrices, q \in Inventories, t \in ElapsedTimes :
        /\ modelQuote' = calculateOptimalQuotes(S, q, t)
        /\ quoted' = [S |-> S, q |-> q, t |-> t, model |-> model]
        /\ last' = [op |-> "calculateOptimalQuotes", result |-> "ok",
                    value |-> [S |-> S, q |-> q, t |-> t], events |-> {}]
        /\ UNCHANGED <<riskVars, today, now, execVars, botVars, model, modelState,
                       contractVars, runVars>>

NextModel ==
    \/ NewModel
    \/ CalculateOptimalQuotes

SpecModel == Init /\ [][NextModel]_vars

\* C20: with gamma > 0, k > 0, sigma >= 0, 0 <= t <= T and S > 0, the quote
\* calculateOptimalQuotes returns has bidPrice <= reservationPrice <= askPrice,
\* whatever the inventory q.
C20_BidBelowReservationBelowAsk ==
    ( /\ last.op = "calculateOptimalQuotes"
      /\ model.gamma > 0 /\ model.k > 0 /\ model.sigma >= 0
      /\ last.value.t >= 0 /\ last.value.t <= model.T
      /\ last.value.S > 0 )
        => /\ modelQuote.bidPrice <= modelQuote.reservationPrice
           /\ modelQuote.reservationPrice <= modelQuote.askPrice

\* gamma*sigma^2*(T-t) + (2/gamma)*ln(1+gamma/k), in the model's arithmetic
SpreadFormula(t) ==
    gammaSigma2Time(t)
      + ((20000 * log1p((model.gamma * 10000) \div model.k)) \div model.gamma)

\* neither bound of the safety clamp is the price returned
ClampInactive(S) ==
    /\ modelQuote.bidPrice > (S \div 100) * 95
    /\ modelQuote.askPrice < (S \div 100) * 105

\* C21: the spread returned with a quote is gamma*sigma^2*(T-t) +
\* (2/gamma)*ln(1+gamma/k), up to the rounding of the fixed-point arithmetic
\* (2 units of 1/10000), and when the safety clamp is inactive askPrice -
\* bidPrice is that spread plus twice the inventory adjustment.
C21_SpreadIsTheFormula ==
    last.op = "calculateOptimalQuotes"
        => /\ Abs(modelQuote.spread - SpreadFormula(last.value.t)) <= 2
           /\ ClampInactive(last.value.S)
                => modelQuote.askPrice - modelQuote.bidPrice
                     = modelQuote.spread + 2 * modelQuote.inventoryAdjustment

C23_InvalidTimeRangeRejected ==
    [][ ( /\ last'.op = "calculateOptimalQuotes"
          /\ (last'.value.t < 0 \/ last'.value.t > model.T) )
            => /\ last'.result = "InvalidTimeRange"
               /\ modelQuote' = modelQuote ]_vars

\* C24: constructing the model with a gamma that is not > 0 fails with
\* InvalidParameter, and no model instance prices with gamma <= 0 (a gamma of
\* 0 in the parameters stands for one left out as well, so the construction
\* is required to fail for the negative ones).
C24_GammaValidated ==
    /\ (last.op = "AvellanedaStoikovModel" /\ last.value.gamma < 0)
          => last.result = "InvalidParameter"
    /\ last.op = "calculateOptimalQuotes" => model.gamma > 0

\* the OrderIntent field constraints
ValidOrderIntent(ord) ==
    /\ ord.direction \in {"buy", "sell"}
    /\ ord.totalSize > 0
    /\ ord.duration > 0
    /\ ord.maxParts >= 1

\* C25: an order that violates the OrderIntent field constraints is rejected
\* before it becomes active: no such order is ever among the orders of the
\* executor, active or completed.
C25_InvalidOrderNeverStarted ==
    \A k \in OrderObjs : ValidOrderIntent(orders[k])

\* baseSize times the factors of C26: 0.5 when the daily loss is above 60% of
\* maxDailyLoss, 0.7 when |currentPosition| is above 60% of maxPositionSize,
\* (1 - volatility) when the volatility is above 5%
ScaledBySpec(baseSize, volatility) ==
    LET s1 == IF (-dailyPnL) * 100 > 60 * maxDailyLoss
              THEN (baseSize * 5) \div 10 ELSE baseSize
        s2 == IF ~positionNaN /\ Abs(currentPosition) * 100 > 60 * maxPositionSize
              THEN (s1 * 7) \div 10 ELSE s1
    IN  IF volatility > 50 THEN (s2 * (1000 - volatility)) \div 1000 ELSE s2

\* C26: the size recommendPositionSize returns is baseSize scaled by 0.5
\* exactly when the daily loss exceeds 60% of maxDailyLoss, by 0.7 exactly when
\* |currentPosition| exceeds 60% of maxPositionSize and by (1 - volatility)
\* exactly when volatility > 5%, compounded, and then brought within the
\* limits of the result.
C26_ScalingFactors ==
    last.op = "recommendPositionSize"
        => last.value.size
             = Max2(Min2(ScaledBySpec(last.value.baseSize, last.value.volatility),
                         maxOrderSize), 1000)

(* ------------------------------------------------------------------ *)
(* recommendPositionSize under any configuration of the order sizes    *)
(* ------------------------------------------------------------------ *)
\* configured minOrderSize <= maxOrderSize, in 1e-5 ETH: the defaults
\* (0.01, 1), those of the development (0.001, 0.1) and test (0.0001, 0.01)
\* environments, one with a larger minimum and one with a smaller maximum
SizeConfigs ==
    { [minOrderSize |-> 1000, maxOrderSize |-> 100000],
      [minOrderSize |-> 100, maxOrderSize |-> 10000],
      [minOrderSize |-> 10, maxOrderSize |-> 1000],
      [minOrderSize |-> 5000, maxOrderSize |-> 100000],
      [minOrderSize |-> 100, maxOrderSize |-> 500] }

\* recommendPositionSize of a RiskManager built with config, in the current
\* risk state
RecommendPositionSizeConfigured ==
    \E config \in SizeConfigs, baseSize \in {100, 1000, 2000, 6000, 200000},
       volatility \in {0, 250} :
        /\ last' = [op |-> "recommendPositionSize", result |-> "ok",
                    value |-> [ config |-> config, baseSize |-> baseSize,
                                volatility |-> volatility,
                                size |-> recommendPositionSizeWithin(
                                             config.maxOrderSize, baseSize, volatility) ],
                    events |-> {}]
        /\ UNCHANGED <<riskVars, today, now, execVars, botVars, modelVars, contractVars, runVars>>

NextSizing ==
    \/ UpdateRiskMetricsCall
    \/ RecommendPositionSizeConfigured

SpecSizing == Init /\ [][NextSizing]_vars

\* C27: for every baseSize, volatility and risk state and every configured
\* minOrderSize <= maxOrderSize, the size recommendPositionSize returns lies
\* within [minOrderSize, maxOrderSize].
C27_RecommendedSizeWithinLimits ==
    last.op = "recommendPositionSize"
        => /\ last.value.size >= last.value.config.minOrderSize
           /\ last.value.size <= last.value.config.maxOrderSize

(* ------------------------------------------------------------------ *)
(* The daily reset of dailyPnL                                         *)
(* ------------------------------------------------------------------ *)
\* the step is a validateOrder call made while the date differs from
\* lastResetDate
ResettingValidation ==
    last'.op = "validateOrder" /\ today # lastResetDate

\* C28: dailyPnL is reset to zero by the first validateOrder call made after
\* the date differs from the date of the last reset, and at no other moment
\* (any other step leaves lastResetDate alone and changes dailyPnL only by
\* the pnl updateRiskMetrics adds); the reset changes neither emergencyStop
\* nor tradingPaused.
C28_ResetOnFirstValidationOfTheDay ==
    [][ /\ ResettingValidation
            => /\ dailyPnL' = 0
               /\ lastResetDate' = today
               /\ emergencyStop' = emergencyStop
               /\ tradingPaused' = tradingPaused
        /\ ~ResettingValidation
            => /\ lastResetDate' = lastResetDate
               /\ \/ dailyPnL' = dailyPnL
                  \/ /\ last'.op = "updateRiskMetrics"
                     /\ dailyPnL' = dailyPnL + last'.value.pnl ]_vars

\* a validateOrder call has reset the daily PnL on a later day while the
\* emergency stop, set by an earlier loss, is still on
C28_Witness ==
    /\ last.op = "validateOrder"
    /\ today > 0
    /\ lastResetDate = today
    /\ dailyPnL = 0
    /\ emergencyStop

(* ------------------------------------------------------------------ *)
(* The shape of the execution plan                                     *)
(* ------------------------------------------------------------------ *)
\* no inventory skew, totalSize/maxParts within [minOrderSize, maxOrderSize]
\* of the executor, and both quotients whole in the units of the model
EvenPlanOrder(order) ==
    /\ order.maxParts >= 1
    /\ order.quotes.null \/ order.quotes.inventoryAdjustment = 0
    /\ order.totalSize >= minOrderSize * order.maxParts
    /\ order.totalSize <= execMaxOrderSize * order.maxParts
    /\ order.totalSize % order.maxParts = 0
    /\ order.duration % order.maxParts = 0

\* C29: with no inventory skew and totalSize/maxParts within the per-part
\* size bounds, the plan executeTWAPOrder has just made has exactly maxParts
\* parts, all pending, each of size totalSize/maxParts, and part i (from 0) is
\* scheduled at the planning time + i * (duration/maxParts), so that the
\* scheduled times increase by duration/maxParts from one part to the next.
C29_EvenPlan ==
    (last.op = "executeTWAPOrder" /\ EvenPlanOrder(last.value))
        => LET ord == orders[Len(orders)]
               plan == ord.executionPlan
               order == last.value
           IN  /\ Len(plan) = order.maxParts
               /\ \A i \in 1..Len(plan) :
                    /\ plan[i].partIndex = i - 1
                    /\ plan[i].status = "pending"
                    /\ plan[i].size * order.maxParts = order.totalSize
                    /\ (plan[i].executionTime - ord.startTime) * order.maxParts
                           = (i - 1) * order.duration
               /\ \A i \in 1..(Len(plan) - 1) :
                    (plan[i + 1].executionTime - plan[i].executionTime)
                        * order.maxParts = order.duration

\* the scenario of the claim: 1.0 ETH over 300 s in 10 parts gives 10 parts of
\* 0.1 ETH, the last one 270 s after the first
C29_Witness ==
    /\ last.op = "executeTWAPOrder"
    /\ EvenPlanOrder(last.value)
    /\ last.value.totalSize = 100000
    /\ last.value.duration = 300
    /\ last.value.maxParts = 10
    /\ Len(orders[1].executionPlan) = 10
    /\ orders[1].executionPlan[10].size = 10000
    /\ orders[1].executionPlan[10].executionTime = orders[1].startTime + 270

(* ------------------------------------------------------------------ *)
(* One pricing model fed with market updates and asked for quotes      *)
(* ------------------------------------------------------------------ *)
\* market data: mid prices 2000.0 and 2020.0, inventories 0 and 3, at t = 0.5
MarketUpdates ==
    [ midPrice : {20000000, 20200000}, timestamp : {5000}, inventory : {0, 3} ]

\* annualised EWMA volatilities of a price history: 0 (flat prices) and 6.12
\* (flat prices followed by one move of 1%, as from 2000.0 to 2020.0:
\* sqrt(0.06 * ln(1.01)^2 * 6307200))
EstimatedVolatilities == {0, 61200}

UpdateParameters ==
    \E marketData \in MarketUpdates, volatility \in EstimatedVolatilities :
        /\ modelState.historyLength < MaxHistory
        /\ updateParameters(marketData, volatility)
        /\ quoted' = [ S |-> marketData.midPrice, q |-> marketData.inventory,
                       t |-> marketData.timestamp, model |-> model' ]
        /\ last' = [op |-> "updateParameters", result |-> "ok",
                    value |-> [ S |-> marketData.midPrice, q |-> marketData.inventory,
                                t |-> marketData.timestamp ],
                    events |-> {"quotesUpdated"}]
        /\ UNCHANGED <<riskVars, today, now, execVars, botVars, contractVars, runVars>>

\* calculateOptimalQuotes called with the values of some market data
CalculateMarketQuotes ==
    \E marketData \in MarketUpdates :
        /\ modelQuote' = calculateOptimalQuotes(marketData.midPrice,
                             marketData.inventory, marketData.timestamp)
        /\ quoted' = [ S |-> marketData.midPrice, q |-> marketData.inventory,
                       t |-> marketData.timestamp, model |-> model ]
        /\ last' = [op |-> "calculateOptimalQuotes", result |-> "ok",
                    value |-> [ S |-> marketData.midPrice, q |-> marketData.inventory,
                                t |-> marketData.timestamp ],
                    events |-> {}]
        /\ UNCHANGED <<riskVars, today, now, execVars, botVars, model, modelState,
                       contractVars, runVars>>

NextQuotes ==
    \/ UpdateParameters
    \/ CalculateMarketQuotes

SpecQuotes == Init /\ [][NextQuotes]_vars

QuoteOps == {"calculateOptimalQuotes", "updateParameters"}

\* C30: a quote computed for the inputs (S, q, t) and with the parameters of
\* the computation before it is the quote that computation returned, whatever
\* happened to the model's state in between; and calculateOptimalQuotes itself
\* changes neither the parameters (sigma among them) nor the state of the
\* model (S, q, t and the histories).
C30_QuoteFreeOfHiddenState ==
    [][ /\ ( /\ last'.op \in QuoteOps
             /\ ~modelQuote.null
             /\ quoted.S = last'.value.S
             /\ quoted.q = last'.value.q
             /\ quoted.t = last'.value.t
             /\ quoted.model = model' )
            => modelQuote' = modelQuote
        /\ last'.op = "calculateOptimalQuotes"
            => model' = model /\ modelState' = modelState ]_vars

\* calculateOptimalQuotes has just been called for an inventory other than
\* the one the model holds, after enough market updates for sigma to have
\* been re-estimated
C30_Witness ==
    /\ last.op = "calculateOptimalQuotes"
    /\ modelState.historyLength > recalibrationLength
    /\ model.sigma # 2000
    /\ last.value.q # modelState.q
    /\ ~modelQuote.null

\* C31: after any sequence of market updates the volatility sigma of the
\* model lies within [0.01, 1.00].
C31_SigmaWithinBand ==
    model.sigma >= 100 /\ model.sigma <= 10000

(* ------------------------------------------------------------------ *)
(* The bot started and stopped while an order is being executed        *)
(* ------------------------------------------------------------------ *)
\* start() is called (before the clock passes MaxTime, and not while a
\* stop() is waiting for the active orders)
StartCall ==
    /\ now <= MaxTime
    /\ ~stopWait.active
    /\ starting < MaxStarting
    /\ start

\* balance reads while no price is available: they fail, or give balances
\* that the RiskManager is not told about
NoPriceOutcomes == { b \in BalanceOutcomes : b.currentPrice = 0 }

StartResumes ==
    \E ok \in BOOLEAN, b \in NoPriceOutcomes :
        /\ now <= MaxTime
        /\ ~stopWait.active
        /\ ok => liveIntervals < MaxIntervals
        /\ startResumes(ok, b.ok, b.inventory, b.currentPrice)

StopCall == stop

StopPoll == waitForActiveOrders

\* a second passes while stop() sleeps between two polls
DrainTick ==
    /\ stopWait.active
    /\ now < stopWait.due
    /\ now' = now + 1
    /\ last' = [op |-> "tick", result |-> "ok", value |-> 0, events |-> {}]
    /\ UNCHANGED <<riskVars, today, execVars, botVars, modelVars, contractVars, runVars>>

DrainOrders ==
    [ id : {1}, direction : {"buy"}, totalSize : {60000}, targetPrice : {2000},
      duration : {2}, maxParts : {1, 2}, quotes : {NoQuotes} ]

ExecuteDrainOrder ==
    \E order \in DrainOrders :
        /\ orders = <<>>
        /\ executeTWAPOrder(order)
        /\ last' = [op |-> "executeTWAPOrder", result |-> "ok", value |-> order.id,
                    events |-> {"orderStarted"} \cup OrderEvents(orders')]
        /\ UNCHANGED <<riskVars, today, now, currentInventory, executionHistory,
                       botVars, modelVars, contractVars, runVars>>

\* a part is processed while the balances cannot be read
DrainPartProcessed ==
    \E k \in OrderObjs, b \in { c \in BalanceOutcomes : ~c.ok } :
        BalancesReturn(k, b.ok, b.inventory, b.currentPrice)

\* start() is called on a bot that is stopped, with no other call under way
StartOnce ==
    /\ ~isRunning
    /\ starting = 0
    /\ liveIntervals = 0
    /\ StartCall

NextStop ==
    \/ StartOnce
    \/ StartResumes
    \/ StopCall
    \/ StopPoll
    \/ DrainTick
    \/ ExecuteDrainOrder
    \/ ExecuteNextPart
    \/ ExecutePartDone
    \/ DrainPartProcessed
    \/ Tick

\* the sleeps of waitForActiveOrders end and the clock runs
SpecStop ==
    Init /\ [][NextStop]_vars /\ WF_vars(StopPoll) /\ WF_vars(DrainTick)

\* C32 as stated: stop() emits stopped after waiting for the active orders
\* for at most the drain timeout of 30 s.
C32_WaitWithinTimeout ==
    (last.op = "stop" /\ last.result = "stopped")
        => last.value.waited <= drainTimeout

\* C32: a stop() of the running bot always terminates: its wait for the active
\* orders ends, no later than one polling period after the drain timeout, and
\* it ends by emitting stopped, also when orders are still active; no step of
\* stop() changes an order or removes one from the active orders.
C32_StopTerminates ==
    /\ [](stopWait.active
            => now - stopWait.startTime <= drainTimeout + pollInterval)
    /\ (stopWait.active ~> ~stopWait.active)
    /\ [][ /\ (stopWait.active /\ ~stopWait'.active)
               => /\ last'.op = "stop"
                  /\ "stopped" \in last'.events
                  /\ last'.value.waited <= drainTimeout + pollInterval
           /\ (last'.op = "stop" /\ isRunning /\ ActiveOrderIds = {})
               => "stopped" \in last'.events
           /\ last'.op = "stop" => UNCHANGED <<orders, activeOrders>> ]_vars

\* stop() has emitted stopped after the timeout while an order is still
\* active, and that order is as it was
C32_Witness ==
    /\ last.op = "stop" /\ last.result = "stopped"
    /\ "stopped" \in last.events
    /\ last.value.waited > drainTimeout
    /\ last.value.active = {1}
    /\ activeOrders[1] = 1
    /\ orders[1].status = "active"

(* ------------------------------------------------------------------ *)
(* The life cycle of the bot: start, stop and the emergency stop       *)
(* ------------------------------------------------------------------ *)
NextLife ==
    \/ StartCall
    \/ StartResumes
    \/ StopCall
    \/ botEmergencyStop
    \/ botResetEmergencyStop
    \/ UpdateRiskMetricsCall

SpecLife == Init /\ [][NextLife]_vars

\* C37: under any interleaving of start, stop, emergencyStop and
\* resetEmergencyStop (a reset after an emergency stop raised by the
\* RiskManager and two resets in a row included), at most one quote-generation
\* interval timer is live, and after stop() none is.
C37_OneQuoteTimer ==
    /\ liveIntervals <= 1
    /\ (last.op = "stop" /\ last.result = "stopped") => liveIntervals = 0

(* ------------------------------------------------------------------ *)
(* The choice of the order direction                                   *)
(* ------------------------------------------------------------------ *)
\* quotes with the reservation price 2000 at the mid, 0.25% above it, 0.25%
\* below it, and 0.1% above and below it
DirectionQuotes ==
    { [ null |-> FALSE, reservationPrice |-> 2000, bidPrice |-> b,
        askPrice |-> b + 10, optimalSpread |-> 10, inventoryAdjustment |-> 0 ] :
      b \in {1995, 1990, 2000, 1993, 1997} }

\* inventories: ETH of 0, 0.1, 0.2, 5 and 9.5, USDT of 0, 200, 400 and 10000
DirectionInventories ==
    [ ETH : {0, 10000, 20000, 500000, 950000}, USDT : {0, 200, 400, 10000} ]

DetermineOrderDirection ==
    \E quotes \in DirectionQuotes, inventory \in DirectionInventories :
        /\ last' = [op |-> "determineOrderDirection", result |-> "ok",
                    value |-> [ quotes |-> quotes, inventory |-> inventory,
                                direction |-> determineOrderDirection(quotes,
                                                                      inventory) ],
                    events |-> {}]
        /\ UNCHANGED <<riskVars, today, now, execVars, botVars, modelVars, contractVars,
                       runVars>>

NextDirection ==
    \/ DetermineOrderDirection
    \/ Initialize
    \/ EvaluateOrderCreation

SpecDirection == Init /\ [][NextDirection]_vars

\* the reservation price is more than 0.2% above (dir = 1) or below
\* (dir = -1) the mid of the quote
OffMid(quotes, dir) ==
    IF dir = 1
    THEN quotes.reservationPrice * 2000 > (quotes.bidPrice + quotes.askPrice) * 1002
    ELSE quotes.reservationPrice * 2000 < (quotes.bidPrice + quotes.askPrice) * 998

\* the value of the ETH held, in percent of the value of the inventory at the
\* reservation price (50 when the inventory is worth nothing)
EthValuePercent(quotes, inventory) ==
    LET ethValue == (inventory.ETH * quotes.reservationPrice) \div 100000
        totalValue == ethValue + inventory.USDT
    IN  IF totalValue = 0 THEN [num |-> 50, den |-> 1]
        ELSE [num |-> ethValue * 100, den |-> totalValue]

\* C33: the direction is sell when the reservation price is more than 0.2%
\* above the quote mid and more than 0.1 ETH is held, buy when it is more than
\* 0.2% below and the USDT held exceed a tenth of the price; otherwise it is
\* buy below an ETH value ratio of 40%, sell above 60%, and none in between;
\* an evaluation that finds no direction creates no order, changes nothing and
\* emits nothing.
C33_MeanReversionThenRebalance ==
    [][ /\ last'.op = "determineOrderDirection"
            => LET quotes == last'.value.quotes
                   inventory == last'.value.inventory
                   ratio == EthValuePercent(quotes, inventory)
               IN  last'.value.direction =
                     IF OffMid(quotes, 1) /\ inventory.ETH > 10000 THEN "sell"
                     ELSE IF OffMid(quotes, -1)
                             /\ inventory.USDT * 10 > quotes.reservationPrice
                          THEN "buy"
                     ELSE IF ratio.num < 40 * ratio.den THEN "buy"
                     ELSE IF ratio.num > 60 * ratio.den THEN "sell"
                     ELSE "none"
        /\ (last'.op = "evaluateOrderCreation" /\ last'.result = "NoDirection")
            => /\ UNCHANGED <<riskVars, execVars, botVars>>
               /\ last'.events = {} ]_vars

\* a sell chosen by the price rule against the inventory rule (the ETH are
\* worth less than 40% of the inventory)
C33_Witness ==
    /\ last.op = "determineOrderDirection"
    /\ last.value.direction = "sell"
    /\ OffMid(last.value.quotes, 1)
    /\ last.value.inventory.ETH = 20000
    /\ last.value.inventory.USDT = 10000

\* C34: peakValue never decreases, and after each updateRiskMetrics call it
\* is at least the portfolio value the call reported, so that the drawdown
\* (peak - current)/peak computed from them is not negative.
C34_PeakNeverDecreases ==
    [][ /\ peakValue' >= peakValue
        /\ last'.op = "updateRiskMetrics"
            => LET currentValue ==
                       calculatePortfolioValue(last'.value.currentInventory,
                                               last'.value.currentPrice)
               IN  /\ peakValue' >= currentValue
                   /\ peakValue' - currentValue >= 0 ]_vars

\* updateRiskMetrics has reported a portfolio value below the peak reached
\* before, and the peak has stayed
C34_Witness ==
    /\ last.op = "updateRiskMetrics"
    /\ calculatePortfolioValue(last.value.currentInventory, last.value.currentPrice)
         < peakValue
    /\ peakValue > 0

\* C35: no part is handed to the backend before its scheduled time: a part
\* enters execution only at or after its executionTime, and a run of
\* executeNextPart before that time only re-arms the timer for the scheduled
\* time, leaving the part pending and the order's counters as they were.
C35_NoPartBeforeItsTime ==
    [][\A k \in 1..Len(orders') :
         LET new == orders'[k]
             isOld == k <= Len(orders)
         IN  /\ (new.pc = "backend" /\ (isOld => orders[k].pc # "backend"))
                  => now' >= new.executionPlan[new.executedParts + 1].executionTime
             /\ ( /\ isOld
                  /\ last'.op = "executeNextPart"
                  /\ orders[k].pc = "timer"
                  /\ new # orders[k]
                  /\ orders[k].executedParts < Len(orders[k].executionPlan)
                  /\ orders[k].executionPlan[orders[k].executedParts + 1].status
                       = "pending"
                  /\ now < orders[k].executionPlan[orders[k].executedParts + 1]
                                .executionTime )
                  => /\ new = [orders[k] EXCEPT !.timerDue =
                                  orders[k].executionPlan[orders[k].executedParts + 1]
                                           .executionTime]
                     /\ activeOrders' = activeOrders
                     /\ executionHistory' = executionHistory ]_vars

\* the timer set one second after a part has fired before the next part's
\* time and has been set again for that time
C35_Witness ==
    /\ last.op = "executeNextPart"
    /\ \E k \in 1..Len(orders) :
         /\ orders[k].pc = "timer"
         /\ orders[k].executedParts >= 1
         /\ orders[k].executedParts < Len(orders[k].executionPlan)
         /\ orders[k].timerDue
              = orders[k].executionPlan[orders[k].executedParts + 1].executionTime
         /\ now + 1 < orders[k].timerDue

(* ------------------------------------------------------------------ *)
(* Concurrent orders near the position limit                           *)
(* ------------------------------------------------------------------ *)
\* balances of a wallet 1 ETH below maxPositionSize
NearLimitInventory == [ETH |-> 900000, USDT |-> 10000]

\* the balances the chain reports: the starting balances moved by the parts
\* executed so far, at the price of PriceSet
SettledInventory ==
    LET executed == SignedExecutedSize(Len(orders))
    IN  [ ETH |-> NearLimitInventory.ETH + executed,
          USDT |-> NearLimitInventory.USDT - (executed * 2000) \div 100000 ]

InitializeNearLimit == initialize(TRUE, NearLimitInventory, 2000)

ConcurrentOrderSpecs == { o \in ManualOrderSpecs : o.totalSize <= maxOrderSize }

ExecuteConcurrentOrder ==
    \E orderSpec \in ConcurrentOrderSpecs, marketData \in BotMarketData :
        executeManualOrder(orderSpec, marketData)

SettledPartProcessed ==
    \E k \in OrderObjs : BalancesReturn(k, TRUE, SettledInventory, 2000)

NextConcurrent ==
    \/ InitializeNearLimit
    \/ ExecuteConcurrentOrder
    \/ ExecuteNextPart
    \/ ExecutePartDone
    \/ SettledPartProcessed
    \/ Tick

SpecConcurrent == Init /\ [][NextConcurrent]_vars

\* C36: when several validated orders run concurrently, the position reached
\* once all their parts have executed is at most maxPositionSize in absolute
\* value: the wallet's ETH balance, moved by the parts of the orders that
\* validateOrder has let through, stays within the limit.
C36_ConcurrentOrdersWithinPositionLimit ==
    (initialized /\ \A k \in OrderObjs : orders[k].status = "completed")
        => Abs(currentInventory.ETH) <= maxPositionSize

\* C38: isTradingAllowed() is true exactly when emergencyStop and
\* tradingPaused are both false (validateOrder refuses with the
\* trading-not-allowed error exactly when one of them is set); once the
\* emergency stop is set, resumeTrading leaves trading forbidden however often
\* it is called, and only resetEmergencyStop allows it again.
C38_ResumeDoesNotLiftEmergencyStop ==
    [][ /\ last'.op = "validateOrder"
            => ((last'.result = "TradingNotAllowed")
                  <=> (emergencyStop \/ tradingPaused))
        /\ (emergencyStop /\ last'.op = "resumeTrading")
            => (emergencyStop' /\ ~isTradingAllowed')
        /\ (emergencyStop /\ isTradingAllowed')
            => last'.op = "resetEmergencyStop"
        /\ last'.op = "resetEmergencyStop" => isTradingAllowed' ]_vars

\* after an emergency stop and a resumeTrading call (the pause flag is clear,
\* the stop is not) validateOrder has refused an order
C38_Witness ==
    /\ last.op = "validateOrder"
    /\ last.result = "TradingNotAllowed"
    /\ emergencyStop /\ ~tradingPaused

\* the price test of determineOrderDirection on a quote of the pricing model:
\* reservationPrice > mid * 1.002 (dir = 1) or < mid * 0.998 (dir = -1),
\* written with the difference 2 * reservationPrice - (bid + ask)
PriceRuleFires(quote, dir) ==
    LET mid2 == quote.bidPrice + quote.askPrice
        d == 2 * quote.reservationPrice - mid2
    IN  IF dir = 1 THEN 500 * d > mid2 ELSE 500 * d < -mid2

\* the prices of a quote of the pricing model in whole USD, as the bot's
\* quotes (for prices from 2000 USD on the rounding is 0.05% at most, a
\* quarter of the 0.2% of the price test)
InUSD(quote) ==
    [ null |-> FALSE,
      reservationPrice |-> quote.reservationPrice \div 10000,
      bidPrice |-> quote.bidPrice \div 10000,
      askPrice |-> quote.askPrice \div 10000,
      optimalSpread |-> quote.spread \div 10000,
      inventoryAdjustment |-> quote.inventoryAdjustment ]

\* the direction the inventory rule gives on its own
RebalanceOnly(quotes, inventory) ==
    LET ratio == EthValuePercent(quotes, inventory)
    IN  IF ratio.num < 40 * ratio.den THEN "buy"
        ELSE IF ratio.num > 60 * ratio.den THEN "sell"
        ELSE "none"

\* C39: when the 5% clamp changes neither the bid nor the ask of a quote, the
\* quote mid (bid + ask)/2 is the reservation price, so that neither price
\* test of determineOrderDirection holds and the direction is the one of the
\* rebalancing rule; the price tests can hold for clamped quotes only.
C39_UnclampedQuoteHasMidAtReservation ==
    ( /\ last.op = "calculateOptimalQuotes"
      /\ last.value.S > 0
      /\ ClampInactive(last.value.S) )
        => /\ modelQuote.bidPrice + modelQuote.askPrice
                = 2 * modelQuote.reservationPrice
           /\ ~PriceRuleFires(modelQuote, 1)
           /\ ~PriceRuleFires(modelQuote, -1)
           /\ last.value.S >= 20000000
                => \A inventory \in
                          { i \in DirectionInventories : i.ETH <= 500000 } :
                     determineOrderDirection(InUSD(modelQuote), inventory)
                       = RebalanceOnly(InUSD(modelQuote), inventory)

\* an unclamped quote whose reservation price is off the market mid and whose
\* prices carry an inventory adjustment
C39_Witness ==
    /\ last.op = "calculateOptimalQuotes"
    /\ last.value.S >= 20000000
    /\ ClampInactive(last.value.S)
    /\ modelQuote.reservationPrice # last.value.S
    /\ modelQuote.inventoryAdjustment # 0
    /\ modelQuote.askPrice > modelQuote.bidPrice

(* ------------------------------------------------------------------ *)
(* NuvexWallet: enhanced TWAP orders                                   *)
(* ------------------------------------------------------------------ *)
\* block.timestamp: the chain's clock is positive
blockTimestamp == now + 1

\* orders submitted for registration (without the Dutch auction extension)
TwapOrders ==
    [ makingAmount : {0, 10}, takingAmount : {0, 7}, twapParts : 0..MaxTwapParts,
      twapStartTime : {1, 2}, twapEndTime : {2, 3} ]

\* the requires of registerEnhancedTWAPOrder
registerEnhancedTWAPOrderAccepted(order) ==
    /\ order.twapParts > 0 /\ order.twapParts <= 100
    /\ order.twapStartTime < order.twapEndTime
    /\ order.makingAmount > 0 /\ order.takingAmount > 0

_calculatePartAmounts(order, partIndex) ==
    LET executedParts == nuvexWallet.twapExecutedParts
        baseMaking == order.makingAmount \div order.twapParts
        baseTaking == order.takingAmount \div order.twapParts
    IN  IF partIndex = order.twapParts - 1
        THEN [ partMakingAmount |-> order.makingAmount - executedParts * baseMaking,
               partTakingAmount |-> order.takingAmount - executedParts * baseTaking ]
        ELSE [ partMakingAmount |-> baseMaking, partTakingAmount |-> baseTaking ]

\* the requires of executeEnhancedTWAPPart; priceOk: _validatePriceProtection
\* passes, callsOk: the calls to the extension hub and the order registrator
\* return
executeEnhancedTWAPPartAccepted(partIndex, priceOk, callsOk) ==
    LET order == nuvexWallet.twapOrders
    IN  /\ order.makingAmount > 0
        /\ partIndex < order.twapParts
        /\ nuvexWallet.twapExecutions[partIndex].executionTime = 0
        /\ blockTimestamp >= order.twapStartTime
        /\ blockTimestamp <= order.twapEndTime
        /\ priceOk
        /\ callsOk

\* the order hash is taken of the order: the storage modelled is that of the
\* hash of the first order registered
RegisterEnhancedTWAPOrder ==
    \E order \in TwapOrders :
        /\ nuvexWallet.twapOrders = NoTwapOrder
        /\ nuvexWallet' =
             IF registerEnhancedTWAPOrderAccepted(order)
             THEN [nuvexWallet EXCEPT !.twapOrders = order]
             ELSE nuvexWallet
        /\ last' = [op |-> "registerEnhancedTWAPOrder",
                    result |-> IF registerEnhancedTWAPOrderAccepted(order)
                               THEN "ok" ELSE "reverted",
                    value |-> order.twapParts,
                    events |-> IF registerEnhancedTWAPOrderAccepted(order)
                               THEN {"EnhancedTWAPOrderRegistered"} ELSE {}]
        /\ UNCHANGED <<riskVars, today, now, execVars, botVars, modelVars, twap,
                       runVars>>

ExecuteEnhancedTWAPPart ==
    \E partIndex \in PartIndices, priceOk \in BOOLEAN, callsOk \in BOOLEAN :
        LET accepted == executeEnhancedTWAPPartAccepted(partIndex, priceOk, callsOk)
            amounts == _calculatePartAmounts(nuvexWallet.twapOrders, partIndex)
        IN  /\ nuvexWallet' =
                 IF accepted
                 THEN [nuvexWallet EXCEPT
                         !.twapExecutions[partIndex] =
                             [ executionTime |-> blockTimestamp,
                               actualMakingAmount |-> amounts.partMakingAmount,
                               actualTakingAmount |-> amounts.partTakingAmount ],
                         !.twapExecutedParts = @ + 1]
                 ELSE nuvexWallet
            /\ last' = [op |-> "executeEnhancedTWAPPart",
                        result |-> IF accepted THEN "ok" ELSE "reverted",
                        value |-> partIndex,
                        events |-> IF accepted THEN {"EnhancedTWAPPartExecuted"}
                                   ELSE {}]
            /\ UNCHANGED <<riskVars, today, now, execVars, botVars, modelVars, twap,
                           runVars>>

NextWallet ==
    \/ RegisterEnhancedTWAPOrder
    \/ ExecuteEnhancedTWAPPart
    \/ Tick

SpecWallet == Init /\ [][NextWallet]_vars

ExecutedIndices ==
    { i \in PartIndices : nuvexWallet.twapExecutions[i].executionTime # 0 }

RECURSIVE SumActualMaking(_)
SumActualMaking(n) ==
    IF n = 0 THEN 0
    ELSE nuvexWallet.twapExecutions[n - 1].actualMakingAmount + SumActualMaking(n - 1)

\* C40: for a registered TWAP order of the wallet, in whatever order its part
\* indices are executed, each index is executed at most once (the executions
\* counted are those of distinct indices, and an executed index is refused)
\* and the partMakingAmount of the executed parts sum to at most the order's
\* makingAmount.
C40_PartsOnceAndWithinMakingAmount ==
    /\ nuvexWallet.twapExecutedParts = Cardinality(ExecutedIndices)
    /\ (last.op = "executeEnhancedTWAPPart" /\ last.result = "ok")
         => last.value \in ExecutedIndices
    /\ SumActualMaking(MaxTwapParts + 1) <= nuvexWallet.twapOrders.makingAmount

====
